---- MODULE Spec2Model ----
(***************************************************************************)
(* A model of the proof-checking kernel of aaronpuchert/logic: the         *)
(* expression tree and its types (core/expression, core/base), the type    *)
(* comparator, the substitution matcher and the three rule shapes          *)
(* (core/tree.cpp), and theories, proof steps and verify()                 *)
(* (core/theory.cpp).                                                      *)
(*                                                                         *)
(* Nodes are identified by their name: every node of the model has its own *)
(* name, so that equality of names is the pointer equality of the source.  *)
(***************************************************************************)
EXTENDS Integers, Sequences, FiniteSets, TLC

VARIABLES
    subst,      \* SpecCheck: the Substitution object under test;
                \* SpecValidate: the Substitution objects of the rule under test
    call,       \* SpecCheck: the last call of Substitution::check and its result
    vcall,      \* SpecValidate: the last proof step built and proved
    objects,    \* the std::list of objects of the theory
    verified    \* Spec: the outcome of the last Theory::verify()

vars == <<subst, call, vcall, objects, verified>>

(***************************************************************************)
(* Expressions.  One record shape per Expression::cls.                     *)
(***************************************************************************)
BuiltInType(variant) == [cls |-> "BUILTINTYPE", variant |-> variant]

type == BuiltInType("TYPE")

statement == BuiltInType("STATEMENT")

rule == BuiltInType("RULE")

undefined == BuiltInType("UNDEFINED")

LambdaType(args, return_type) ==
    [cls |-> "LAMBDATYPE", return_type |-> return_type, args |-> args]

AtomicExpr(node) == [cls |-> "ATOMIC", node |-> node]

LambdaCallExpr(node, args) == [cls |-> "LAMBDACALL", node |-> node, args |-> args]

NegationExpr(expr) == [cls |-> "NEGATION", expr |-> expr]

ConnectiveExpr(variant, first, second) ==
    [cls |-> "CONNECTIVE", variant |-> variant, first |-> first, second |-> second]

QuantifierExpr(variant, predicate) ==
    [cls |-> "QUANTIFIER", variant |-> variant, predicate |-> predicate]

LambdaExpr(params, expression) ==
    [cls |-> "LAMBDA", params |-> params, expression |-> expression]

(***************************************************************************)
(* The declared nodes.  The theory declares person, schueler, dumm, fritz  *)
(* (doc/language.md, theory_writer_test) and the statement constants p, q; *)
(* x and s are the parameters of the lambda expressions; a, b, T, P, y are *)
(* the parameters of the rules of basic/rules.lth and F is the parameter   *)
(* of the rules on predicates over statements; t is the parameter (T x)   *)
(* of the lambda expression of negate_forall, w that of a lambda           *)
(* expression over person in a target.                                     *)
(***************************************************************************)
NodeType(node) ==
    CASE node \in {"person", "T"} -> type
      [] node \in {"schueler", "dumm"} ->
            LambdaType(<<AtomicExpr("person")>>, statement)
      [] node \in {"fritz", "x", "w"} -> AtomicExpr("person")
      [] node \in {"p", "q", "a", "b", "s"} -> statement
      [] node = "P" -> LambdaType(<<AtomicExpr("T")>>, statement)
      [] node \in {"y", "t"} -> AtomicExpr("T")
      [] node = "F" -> LambdaType(<<statement>>, statement)
      [] node = "likes" ->
            LambdaType(<<AtomicExpr("person"), AtomicExpr("person")>>, statement)
      [] node = "" -> undefined     \* the undefined_node of the parser

RECURSIVE getType(_)
getType(expr) ==
    CASE expr.cls = "ATOMIC" -> NodeType(expr.node)
      [] expr.cls = "LAMBDACALL" -> NodeType(expr.node).return_type
      [] expr.cls \in {"NEGATION", "CONNECTIVE", "QUANTIFIER"} -> statement
      [] expr.cls = "LAMBDA" ->
            \* the vector of types is created with one element and
            \* std::transform writes one type per parameter into it
            LambdaType([i \in 1..1 |-> NodeType(expr.params[i])],
                       getType(expr.expression))
      [] expr.cls \in {"BUILTINTYPE", "LAMBDATYPE"} -> type

(***************************************************************************)
(* TypeComparator.  A Context is a function from nodes to expressions; the *)
(* comparator without a context (nullptr) looks nothing up.                *)
(***************************************************************************)
NoContext == [n \in {} |-> type]

RECURSIVE description(_, _), descriptions(_, _, _)
\* the description with every atomic type told by its node
description_by_node(expr, context) ==
    CASE expr.cls = "BUILTINTYPE" -> <<expr.variant>>
      [] expr.cls = "LAMBDATYPE" ->
            <<"-1">> \o description(expr.return_type, NoContext)
                     \o descriptions(expr.args, NoContext, 1) \o <<"-2">>
      [] expr.cls = "ATOMIC" -> <<expr.node>>
      [] OTHER -> <<>>

description(expr, context) ==
    CASE expr.cls = "BUILTINTYPE" -> <<expr.variant>>
      [] expr.cls = "LAMBDATYPE" ->
            <<"-1">> \o description(expr.return_type, context)
                     \o descriptions(expr.args, context, 1) \o <<"-2">>
      [] expr.cls = "ATOMIC" ->
            IF expr.node \in DOMAIN context
            THEN description(context[expr.node], context)
            ELSE <<expr.node>>
      [] OTHER -> <<>>

descriptions(args, context, i) ==
    IF i > Len(args) THEN <<>>
    ELSE description(args[i], context) \o descriptions(args, context, i + 1)

\* a comparator that compares the lengths of the descriptions
TypeComparator_lengths(a, b, context) ==
    IF getType(a) # type \/ getType(b) # type
    THEN [thrown |-> "logic_error", value |-> FALSE]
    ELSE [thrown |-> "none",
          value |-> Len(description(a, context)) = Len(description(b, context))]

\* TypeComparator::operator(): thrown is "logic_error" for non-types
TypeComparator(a, b, context) ==
    IF getType(a) # type \/ getType(b) # type
    THEN [thrown |-> "logic_error", value |-> FALSE]
    ELSE IF a = b
    THEN [thrown |-> "none", value |-> TRUE]
    ELSE [thrown |-> "none",
          value |-> description(a, context) = description(b, context)]

(***************************************************************************)
(* Substitution (core/tree.cpp).  The object keeps the template expr, the  *)
(* stack of template expressions, the stack of parameter lists (nullptr is *)
(* a placeholder), the map of substitutions and the offending pair.  The   *)
(* field thrown is the exception that is unwinding the current call.       *)
(***************************************************************************)
nullptr == [null |-> TRUE, params |-> <<>>]

ParamList(params) == [null |-> FALSE, params |-> params]

Substitution(expr) ==
    [expr |-> expr, stack |-> <<>>, subst_stack |-> <<>>,
     substitutions |-> NoContext, offender |-> <<>>, thrown |-> "none"]

top(stack) == stack[Len(stack)]

pop_back(stack) == SubSeq(stack, 1, Len(stack) - 1)

\* Substitution::have: whether a substitute is known is asked with DOMAIN
have(S, node) == S.substitutions[node]

\* std::map::insert keeps the entry of a key that is already present
insert(substitutions, node, expr) ==
    IF node \in DOMAIN substitutions THEN substitutions
    ELSE [n \in DOMAIN substitutions \cup {node} |->
            IF n = node THEN expr ELSE substitutions[n]]

erase(substitutions, nodes) ==
    [n \in DOMAIN substitutions \ nodes |-> substitutions[n]]

add(S, node, expr) ==
    LET shortcut == IF expr.cls = "ATOMIC" /\ expr.node \in DOMAIN S.substitutions
                    THEN S.substitutions[expr.node]
                    ELSE expr
    IN  [S EXCEPT !.substitutions = insert(@, node, shortcut)]

RECURSIVE addAll(_, _, _, _)
addAll(S, params, args, i) ==
    IF i > Len(params) THEN S
    ELSE addAll(add(S, params[i], args[i]), params, args, i + 1)

pop_params(S) ==
    [S EXCEPT !.substitutions = erase(@, {top(S.subst_stack).params[i] :
                                          i \in 1..Len(top(S.subst_stack).params)}),
              !.subst_stack = pop_back(@)]

RECURSIVE pop_lists(_)
pop_lists(S) ==
    IF Len(S.subst_stack) > 0 /\ ~top(S.subst_stack).null
    THEN pop_lists(pop_params(S))
    ELSE S

pop(S) ==
    IF S.thrown # "none" THEN S
    ELSE IF ~top(S.subst_stack).null THEN [S EXCEPT !.thrown = "logic_error"]
    ELSE LET popped == pop_lists([S EXCEPT !.subst_stack = pop_back(@)])
         IN  [popped EXCEPT !.stack = pop_back(@)]

RECURSIVE push(_, _)
push(S, expr) ==
    IF S.thrown # "none" THEN S
    ELSE IF expr.cls = "ATOMIC" /\ expr.node \in DOMAIN S.substitutions
    THEN [S EXCEPT !.subst_stack = Append(@, nullptr),
                   !.stack = Append(@, have(S, expr.node))]
    ELSE IF expr.cls = "LAMBDACALL" /\ expr.node \in DOMAIN S.substitutions
    THEN LET lambda_def == have(S, expr.node)
         IN  IF lambda_def.cls = "ATOMIC"
             THEN [S EXCEPT !.thrown = "int"]
             ELSE push(addAll([S EXCEPT !.subst_stack =
                                    Append(@, ParamList(lambda_def.params))],
                              lambda_def.params, expr.args, 1),
                       lambda_def.expression)
    ELSE [S EXCEPT !.subst_stack = Append(@, nullptr),
                   !.stack = Append(@, expr)]

mismatch(S, expr, target_expr) == [S EXCEPT !.offender = <<expr, target_expr>>]

Min(m, n) == IF m < n THEN m ELSE n

\* the lambda parameters of the target as atomic expressions
RECURSIVE addLambdaParams(_, _, _, _)
addLambdaParams(S, params, target_params, i) ==
    IF i > Len(params) THEN S
    ELSE addLambdaParams(add(S, params[i], AtomicExpr(target_params[i])),
                         params, target_params, i + 1)

RECURSIVE visit(_, _), visitArgs(_, _, _, _)
visit(S, expression) ==
    IF S.thrown # "none" THEN S
    ELSE LET expr == top(S.stack) IN
    CASE expression.cls = "ATOMIC" ->
            IF expr.cls = "ATOMIC" /\ expr.node = expression.node
            THEN S
            ELSE mismatch(S, expr, expression)
      [] expression.cls = "LAMBDACALL" ->
            IF expr.cls = "LAMBDACALL" /\ expr.node = expression.node
            THEN visitArgs(S, expr.args, expression.args, 1)
            ELSE mismatch(S, expr, expression)
      [] expression.cls = "NEGATION" ->
            IF expr.cls = "NEGATION"
            THEN pop(visit(push(S, expr.expr), expression.expr))
            ELSE mismatch(S, expr, expression)
      [] expression.cls = "CONNECTIVE" ->
            IF expr.cls = "CONNECTIVE" /\ expr.variant = expression.variant
            THEN pop(visit(push(pop(visit(push(S, expr.first), expression.first)),
                                expr.second), expression.second))
            ELSE mismatch(S, expr, expression)
      [] expression.cls = "QUANTIFIER" ->
            IF expr.cls = "QUANTIFIER" /\ expr.variant = expression.variant
            THEN pop(visit(push(S, expr.predicate), expression.predicate))
            ELSE mismatch(S, expr, expression)
      [] expression.cls = "LAMBDA" ->
            IF expr.cls = "LAMBDA"
               /\ TypeComparator(getType(expression), getType(expr), NoContext).value
            THEN pop(visit(push(addLambdaParams(
                                    [S EXCEPT !.subst_stack =
                                        Append(@, ParamList(expr.params))],
                                    expr.params, expression.params, 1),
                                expr.expression),
                           expression.expression))
            ELSE mismatch(S, expr, expression)
      [] OTHER -> S     \* Visitor::visit of the types does nothing

visitArgs(S, expr_args, target_args, i) ==
    IF i > Min(Len(expr_args), Len(target_args)) THEN S
    ELSE visitArgs(pop(visit(push(S, expr_args[i]), target_args[i])),
                   expr_args, target_args, i + 1)

\* a null pointer to an expression: a node without definition has it
NoExpression == [cls |-> "NONE"]

\* a check that keeps the offender of the call before
check_keeps_offender(S, target, context) ==
    pop(visit(push([S EXCEPT !.substitutions = context, !.thrown = "none"],
                   S.expr), target))

\* Substitution::check: the object after the call; it returned
\* !offender.first unless an exception left it
check(S, target, context) ==
    IF target = NoExpression
    THEN \* target->accept(this) through a null pointer
         [push([S EXCEPT !.offender = <<>>, !.substitutions = context,
                         !.thrown = "none"],
               S.expr) EXCEPT !.thrown = "SIGSEGV"]
    ELSE pop(visit(push([S EXCEPT !.offender = <<>>, !.substitutions = context,
                                  !.thrown = "none"],
                        S.expr),
                   target))

returned(S) == IF S.thrown # "none" THEN S.thrown
               ELSE IF S.offender = <<>> THEN "true" ELSE "false"

(***************************************************************************)
(* The type checks of the expression constructors.                         *)
(***************************************************************************)
RECURSIVE argsCompare(_, _, _)
argsCompare(arg_types, args, i) ==
    IF i > Len(arg_types) THEN TRUE
    ELSE TypeComparator(arg_types[i], getType(args[i]), NoContext).value
         /\ argsCompare(arg_types, args, i + 1)

RECURSIVE constructs(_)
constructs(expr) ==
    CASE expr.cls = "ATOMIC" -> TRUE
      [] expr.cls = "LAMBDACALL" ->
            /\ \A i \in 1..Len(expr.args) : constructs(expr.args[i])
            /\ NodeType(expr.node).cls = "LAMBDATYPE"
            /\ Len(expr.args) = Len(NodeType(expr.node).args)
            /\ argsCompare(NodeType(expr.node).args, expr.args, 1)
      [] expr.cls = "NEGATION" ->
            constructs(expr.expr) /\ getType(expr.expr) = statement
      [] expr.cls = "CONNECTIVE" ->
            /\ constructs(expr.first) /\ constructs(expr.second)
            /\ getType(expr.first) = statement
            /\ getType(expr.second) = statement
      [] expr.cls = "QUANTIFIER" ->
            /\ constructs(expr.predicate)
            /\ getType(expr.predicate).cls = "LAMBDATYPE"
            /\ getType(expr.predicate).return_type = statement
      [] expr.cls = "LAMBDA" -> constructs(expr.expression)
      [] OTHER -> TRUE

(***************************************************************************)
(* ProofStep::ProofStep (core/theory.cpp): the context is built parameter  *)
(* by parameter, each argument type compared under the context so far.     *)
(* The loop runs over the parameters of the rule and never looks at the    *)
(* length of var_list: further arguments are left alone, and with fewer    *)
(* arguments the loop reads behind the end of the vector.                  *)
(***************************************************************************)
RECURSIVE makeContext(_, _, _, _)
makeContext(params, var_list, i, context) ==
    IF i > Len(params) THEN [thrown |-> "none", subst |-> context]
    ELSE IF i > Len(var_list) THEN [thrown |-> "undefined", subst |-> context]
    ELSE LET compare == TypeComparator(NodeType(params[i]),
                                       getType(var_list[i]), context)
         IN  IF compare.thrown # "none"
             THEN [thrown |-> compare.thrown, subst |-> context]
             ELSE IF ~compare.value
             THEN [thrown |-> "TypeException", subst |-> context]
             ELSE makeContext(params, var_list, i + 1,
                              insert(context, params[i], var_list[i]))

(***************************************************************************)
(* The expressions of the model.                                           *)
(***************************************************************************)
MaxDepth == 2       \* nesting depth of the calls of F in a template

MaxCalls == 2       \* calls of check on one Substitution object

p == AtomicExpr("p")

q == AtomicExpr("q")

person == AtomicExpr("person")

fritz == AtomicExpr("fritz")

schueler(e) == LambdaCallExpr("schueler", <<e>>)

dumm(e) == LambdaCallExpr("dumm", <<e>>)

not(e) == NegationExpr(e)

impl(e, f) == ConnectiveExpr("IMPL", e, f)

or(e, f) == ConnectiveExpr("OR", e, f)

forall(e) == QuantifierExpr("FORALL", e)

\* (lambda (list (person x)) (impl (schueler x) (dumm x)))
impl_pred == LambdaExpr(<<"x">>, impl(schueler(AtomicExpr("x")), dumm(AtomicExpr("x"))))

\* (lambda (list (statement s)) (not s))
not_pred == LambdaExpr(<<"s">>, not(AtomicExpr("s")))

\* (lambda (list (statement s)) (or s p))
or_pred == LambdaExpr(<<"s">>, or(AtomicExpr("s"), p))

RECURSIVE nested(_)
nested(depth) ==
    IF depth = 0 THEN AtomicExpr("a")
    ELSE LambdaCallExpr("F", <<nested(depth - 1)>>)

TemplateCandidates ==
    { AtomicExpr("a"), not(not(AtomicExpr("a"))),
      or(AtomicExpr("a"), not(AtomicExpr("a"))),
      impl(AtomicExpr("a"), AtomicExpr("b")),
      forall(AtomicExpr("P")), LambdaCallExpr("P", <<AtomicExpr("y")>>),
      LambdaCallExpr("F", <<not(nested(1))>>),
      \* ill-typed: the constructors refuse it
      not(AtomicExpr("y")) }
    \cup { nested(depth) : depth \in 1..MaxDepth }

Templates == { expr \in TemplateCandidates : constructs(expr) }

\* parameter lists with candidate arguments
ContextCandidates ==
    { <<<<"a", "b">>, <<p, q>>>>,
      <<<<"a", "b">>, <<not(p), p>>>>,
      <<<<"a", "b">>, <<schueler(fritz), dumm(fritz)>>>>,
      <<<<"T", "P", "y">>, <<person, impl_pred, fritz>>>>,
      <<<<"T", "P", "y">>, <<person, AtomicExpr("schueler"), fritz>>>>,
      <<<<"T", "P", "y">>, <<person, not_pred, fritz>>>>,
      <<<<"F", "a">>, <<not_pred, p>>>>,
      <<<<"F", "a">>, <<or_pred, q>>>>,
      <<<<"F", "a">>, <<not_pred, fritz>>>> }

Contexts ==
    { makeContext(c[1], c[2], 1, NoContext).subst :
        c \in { d \in ContextCandidates :
                    /\ \A i \in 1..Len(d[2]) : constructs(d[2][i])
                    /\ makeContext(d[1], d[2], 1, NoContext).thrown = "none" } }

(***************************************************************************)
(* The template with its parameters replaced: the expression that a        *)
(* template stands for under a context.  An atom bound in the context is   *)
(* its substitute; a call of a parameter bound to a lambda expression is   *)
(* the body of the lambda with the arguments in place of its parameters.   *)
(***************************************************************************)
RECURSIVE replaced(_, _)
replaced(expr, context) ==
    CASE expr.cls = "ATOMIC" ->
            IF expr.node \in DOMAIN context THEN context[expr.node] ELSE expr
      [] expr.cls = "LAMBDACALL" ->
            LET args == [i \in 1..Len(expr.args) |-> replaced(expr.args[i], context)]
            IN  IF expr.node \notin DOMAIN context
                THEN LambdaCallExpr(expr.node, args)
                ELSE IF context[expr.node].cls = "LAMBDA"
                THEN replaced(context[expr.node].expression,
                              [n \in {context[expr.node].params[i] :
                                        i \in 1..Len(args)} |->
                                 args[CHOOSE i \in 1..Len(args) :
                                        context[expr.node].params[i] = n]])
                ELSE LambdaCallExpr(context[expr.node].node, args)
      [] expr.cls = "NEGATION" -> NegationExpr(replaced(expr.expr, context))
      [] expr.cls = "CONNECTIVE" ->
            ConnectiveExpr(expr.variant, replaced(expr.first, context),
                           replaced(expr.second, context))
      [] expr.cls = "QUANTIFIER" ->
            QuantifierExpr(expr.variant, replaced(expr.predicate, context))
      [] expr.cls = "LAMBDA" ->
            LambdaExpr(expr.params, replaced(expr.expression, context))
      [] OTHER -> expr

\* every call of a bound parameter in the template calls a lambda expression
RECURSIVE callsLambdas(_, _)
callsLambdas(expr, context) ==
    CASE expr.cls = "LAMBDACALL" ->
            /\ expr.node \in DOMAIN context => context[expr.node].cls = "LAMBDA"
            /\ \A i \in 1..Len(expr.args) : callsLambdas(expr.args[i], context)
      [] expr.cls = "NEGATION" -> callsLambdas(expr.expr, context)
      [] expr.cls = "CONNECTIVE" ->
            callsLambdas(expr.first, context) /\ callsLambdas(expr.second, context)
      [] expr.cls = "QUANTIFIER" -> callsLambdas(expr.predicate, context)
      [] expr.cls = "LAMBDA" -> callsLambdas(expr.expression, context)
      [] OTHER -> TRUE

Targets ==
    { replaced(expr, context) : expr \in Templates, context \in Contexts }
    \cup { not(p), not(not(not(p))), dumm(fritz) }

(***************************************************************************)
(* SpecCheck: a Substitution object is constructed for a template and      *)
(* check is called on it with targets and contexts.                        *)
(***************************************************************************)
NoCall == [n |-> 0, target |-> type, context |-> NoContext, returned |-> "none"]

Idle == /\ vcall = NoCall
        /\ objects = <<>>
        /\ verified = "none"

InitCheck ==
    /\ subst \in { Substitution(expr) : expr \in Templates }
    /\ call = NoCall
    /\ Idle

Check(target, context) ==
    /\ call.n < MaxCalls
    /\ subst' = check(subst, target, context)
    /\ call' = [n |-> call.n + 1, target |-> target, context |-> context,
                returned |-> returned(subst')]
    /\ UNCHANGED <<vcall, objects, verified>>

NextCheck == \E target \in Targets, context \in Contexts : Check(target, context)

SpecCheck == InitCheck /\ [][NextCheck]_vars

\* C2: check returns true exactly when the target is the template with the
\* parameters of the context replaced (calls of parameters bound to lambda
\* expressions being replaced by the lambda's body), at any nesting depth.
C2_CheckIsReplacement ==
    (call.n > 0 /\ callsLambdas(subst.expr, call.context))
        => (call.returned = "true"
                <=> call.target = replaced(subst.expr, call.context))

(***************************************************************************)
(* SpecLambda: check on templates that are lambda expressions, or hold     *)
(* one, against targets with lambda expressions of their own.              *)
(***************************************************************************)
exists(e) == QuantifierExpr("EXISTS", e)

\* (lambda (list (T x)) (not (P x))), of negate_forall
not_P == LambdaExpr(<<"t">>, not(LambdaCallExpr("P", <<AtomicExpr("t")>>)))

\* (lambda (list (person w)) body)
over_person(body) == LambdaExpr(<<"w">>, body)

LambdaTemplates ==
    { expr \in { not_P, exists(not_P), impl_pred, forall(impl_pred), not_pred } :
        constructs(expr) }

LambdaTargets ==
    { expr \in
        { over_person(not(impl(schueler(AtomicExpr("w")), dumm(AtomicExpr("w"))))),
          exists(over_person(not(impl(schueler(AtomicExpr("w")),
                                      dumm(AtomicExpr("w")))))),
          over_person(impl(schueler(AtomicExpr("w")), dumm(AtomicExpr("w")))),
          forall(over_person(impl(schueler(AtomicExpr("w")), dumm(AtomicExpr("w"))))),
          over_person(not(schueler(AtomicExpr("w")))),
          over_person(impl(schueler(AtomicExpr("w")), schueler(AtomicExpr("w")))),
          impl_pred, not_pred, or_pred } :
        constructs(expr) }

InitLambda ==
    /\ subst \in { Substitution(expr) : expr \in LambdaTemplates }
    /\ call = NoCall
    /\ Idle

NextLambda ==
    \E target \in LambdaTargets, context \in Contexts : Check(target, context)

SpecLambda == InitLambda /\ [][NextLambda]_vars

\* a type with the atomic types bound in the context replaced
RECURSIVE resolved(_, _)
resolved(type_expr, context) ==
    CASE type_expr.cls = "ATOMIC" ->
            IF type_expr.node \in DOMAIN context THEN context[type_expr.node]
            ELSE type_expr
      [] type_expr.cls = "LAMBDATYPE" ->
            LambdaType([i \in 1..Len(type_expr.args) |->
                            resolved(type_expr.args[i], context)],
                       resolved(type_expr.return_type, context))
      [] OTHER -> type_expr

\* the parameters of a template lambda bound to those of the target lambda
bound_params(params, target_params, context) ==
    [n \in {params[i] : i \in 1..Len(params)} \cup DOMAIN context |->
        IF \E i \in 1..Len(params) : params[i] = n
        THEN AtomicExpr(target_params[CHOOSE i \in 1..Len(params) : params[i] = n])
        ELSE context[n]]

\* C11: a template lambda and a target lambda match exactly when their type
\* signatures are equal under the context of the call and the body of the
\* target is the body of the template with the parameters of the template
\* lambda bound to those of the target lambda.
C11_LambdaSignature ==
    (/\ call.n > 0
     /\ subst.expr.cls = "LAMBDA" /\ call.target.cls = "LAMBDA"
     /\ callsLambdas(subst.expr, call.context)) =>
        (call.returned = "true" <=>
            /\ resolved(getType(subst.expr), call.context)
                    = getType(call.target)
            /\ call.target.expression =
                    replaced(subst.expr.expression,
                             bound_params(subst.expr.params, call.target.params,
                                          call.context)))

(***************************************************************************)
(* Objects of a theory, references and proof steps (core/theory.cpp).      *)
(***************************************************************************)
\* Node(type, name): a declaration without definition
Node(name) ==
    [cls |-> "Node", type |-> NodeType(name), name |-> name,
     expression |-> NoExpression, proof |-> <<>>]

\* Statement(name, expr), for an expression of type statement
Statement(name, expr) ==
    [cls |-> "Statement", type |-> statement, name |-> name,
     expression |-> expr, proof |-> <<>>]

addProof(stmt, proof) == [stmt EXCEPT !.proof = <<proof>>]

hasProof(stmt) == Len(stmt.proof) > 0

getProof(stmt) == stmt.proof[1]

\* a reference is a theory and an iterator into its list: here the position
Reference(theory, it) == [theory |-> theory, ref |-> it]

\* Reference::operator*
deref(objs, reference) == objs[reference.ref]

(***************************************************************************)
(* The rules (core/tree.cpp, basic/rules.lth).  A rule owns its parameters *)
(* and one Substitution object per template: substs is <<subst>> for a     *)
(* tautology, <<subst1, subst2>> for an equivalence rule and the           *)
(* subst_premisses followed by subst_conclusion for a deduction rule.      *)
(***************************************************************************)
Tautology(name, params, tautology) ==
    [cls |-> "Tautology", type |-> rule, name |-> name, params |-> params,
     substs |-> <<Substitution(tautology)>>]

EquivalenceRule(name, params, statement1, statement2) ==
    [cls |-> "EquivalenceRule", type |-> rule, name |-> name, params |-> params,
     substs |-> <<Substitution(statement1), Substitution(statement2)>>]

DeductionRule(name, params, premisses, conclusion) ==
    [cls |-> "DeductionRule", type |-> rule, name |-> name, params |-> params,
     substs |-> [i \in 1..Len(premisses) |-> Substitution(premisses[i])]
                    \o <<Substitution(conclusion)>>]

excluded_middle ==
    Tautology("excluded_middle", <<"a">>, or(AtomicExpr("a"), not(AtomicExpr("a"))))

double_negation ==
    EquivalenceRule("double_negation", <<"a">>, not(not(AtomicExpr("a"))),
                    AtomicExpr("a"))

ponens ==
    DeductionRule("ponens", <<"a", "b">>,
                  <<impl(AtomicExpr("a"), AtomicExpr("b")), AtomicExpr("a")>>,
                  AtomicExpr("b"))

specialization ==
    DeductionRule("specialization", <<"T", "P", "y">>,
                  <<forall(AtomicExpr("P"))>>,
                  LambdaCallExpr("P", <<AtomicExpr("y")>>))

\* the constructors of the rules want templates of type statement
ruleConstructs(r) ==
    \A i \in 1..Len(r.substs) :
        constructs(r.substs[i].expr) /\ getType(r.substs[i].expr) = statement

Rules == { r \in {excluded_middle, double_negation, ponens, specialization} :
                ruleConstructs(r) }

getRule(name) == CHOOSE r \in Rules : r.name = name

\* the number of premisses a rule wants
premisses(r) == CASE r.cls = "Tautology" -> 0
                  [] r.cls = "EquivalenceRule" -> 1
                  [] r.cls = "DeductionRule" -> Len(r.substs) - 1

(***************************************************************************)
(* validate_pass of the three rules.  The result is what the call          *)
(* returned ("true", "false" or the exception that left it), the           *)
(* Substitution objects after the call and the number of calls of check.   *)
(***************************************************************************)
Result(ret, substs, checks) ==
    [returned |-> ret, substs |-> substs, checks |-> checks]

\* a tautology that does not count its references
Tautology_validate_uncounted(substs, objs, context, statements, stmt) ==
    LET S == check(substs[1], stmt, context)
    IN  Result(returned(S), <<S>>, 1)

Tautology_validate_pass(substs, objs, context, statements, stmt) ==
    IF Len(statements) # 0 THEN Result("false", substs, 0)
    ELSE LET S == check(substs[1], stmt, context)
         IN  Result(returned(S), <<S>>, 1)

\* an equivalence rule that tries one direction only
EquivalenceRule_validate_one_way(substs, objs, context, statements, stmt) ==
    IF Len(statements) # 1 THEN Result("false", substs, 0)
    ELSE LET alt_statement == deref(objs, statements[1]).expression
             S1 == check(substs[1], alt_statement, context)
             S2 == check(substs[2], stmt, context)
         IN  IF returned(S1) # "true"
             THEN Result(returned(S1), <<S1, substs[2]>>, 1)
             ELSE Result(returned(S2), <<S1, S2>>, 2)

EquivalenceRule_validate_pass(substs, objs, context, statements, stmt) ==
    IF Len(statements) # 1 THEN Result("false", substs, 0)
    ELSE LET alt_statement == deref(objs, statements[1]).expression
             \* (subst1.check(statement) && subst2.check(alt_statement))
             other_way(subst1, subst2, checks) ==
                LET S1 == check(subst1, stmt, context)
                    S2 == check(subst2, alt_statement, context)
                IN  IF returned(S1) # "true"
                    THEN Result(returned(S1), <<S1, subst2>>, checks + 1)
                    ELSE Result(returned(S2), <<S1, S2>>, checks + 2)
             S1 == check(substs[1], alt_statement, context)
             S2 == check(substs[2], stmt, context)
         IN  IF returned(S1) = "false" THEN other_way(S1, substs[2], 1)
             ELSE IF returned(S1) # "true"
             THEN Result(returned(S1), <<S1, substs[2]>>, 1)
             ELSE IF returned(S2) = "false" THEN other_way(S1, S2, 2)
             ELSE Result(returned(S2), <<S1, S2>>, 2)

\* std::mismatch over the premisses: stops at the first that does not match
RECURSIVE check_premisses(_, _, _, _, _)
\* a loop over the premisses that stops behind the first
check_first_premiss(substs, objs, context, statements, i) ==
    IF i > 1 THEN Result("true", substs, i - 1)
    ELSE LET S == check(substs[i], deref(objs, statements[i]).expression, context)
             after == [substs EXCEPT ![i] = S]
         IN  IF returned(S) # "true" THEN Result(returned(S), after, i)
             ELSE check_premisses(after, objs, context, statements, i + 1)

check_premisses(substs, objs, context, statements, i) ==
    IF i > Len(substs) - 1 THEN Result("true", substs, i - 1)
    ELSE LET S == check(substs[i], deref(objs, statements[i]).expression, context)
             after == [substs EXCEPT ![i] = S]
         IN  IF returned(S) # "true" THEN Result(returned(S), after, i)
             ELSE check_premisses(after, objs, context, statements, i + 1)

\* a deduction rule that takes more references than it has premisses
DeductionRule_validate_at_least(substs, objs, context, statements, stmt) ==
    IF Len(statements) < Len(substs) - 1 THEN Result("false", substs, 0)
    ELSE LET prem == check_premisses(substs, objs, context, statements, 1)
             S == check(prem.substs[Len(substs)], stmt, context)
         IN  IF prem.returned # "true" THEN prem
             ELSE Result(returned(S), [prem.substs EXCEPT ![Len(substs)] = S],
                         prem.checks + 1)

DeductionRule_validate_pass(substs, objs, context, statements, stmt) ==
    IF Len(statements) # Len(substs) - 1 THEN Result("false", substs, 0)
    ELSE LET prem == check_premisses(substs, objs, context, statements, 1)
             S == check(prem.substs[Len(substs)], stmt, context)
         IN  IF prem.returned # "true" THEN prem
             ELSE Result(returned(S), [prem.substs EXCEPT ![Len(substs)] = S],
                         prem.checks + 1)

validate_pass(cls, substs, objs, context, statements, stmt) ==
    CASE cls = "Tautology" ->
            Tautology_validate_pass(substs, objs, context, statements, stmt)
      [] cls = "EquivalenceRule" ->
            EquivalenceRule_validate_pass(substs, objs, context, statements, stmt)
      [] cls = "DeductionRule" ->
            DeductionRule_validate_pass(substs, objs, context, statements, stmt)

\* Rule::validate: passes counts the calls of validate_pass
validate(cls, substs, objs, context, statements, stmt) ==
    [passes |-> 1] @@ validate_pass(cls, substs, objs, context, statements, stmt)

\* ProofStep::ProofStep: the proof step, or the exception thrown.  With
\* fewer arguments than parameters the behaviour is undefined.
ProofStep(r, var_list, statement_list) ==
    LET made == makeContext(r.params, var_list, 1, NoContext)
        step(thrown) == [thrown |-> thrown, rule |-> r.name, subst |-> made.subst,
                         ref_statement_list |-> statement_list]
    IN  IF r.type # rule THEN {step("TypeException")}
        ELSE IF made.thrown = "undefined"
        THEN {step("SIGSEGV"), step("TypeException"), step("logic_error")}
        ELSE {step(made.thrown)}

\* ProofStep::proves, on the Substitution objects substs of the rule
proves(step, substs, objs, stmt) ==
    validate(getRule(step.rule).cls, substs, objs, step.subst,
             step.ref_statement_list, stmt.expression)

(***************************************************************************)
(* SpecValidate: proof steps of one rule are built from argument lists and *)
(* references into a theory of axioms, and asked to prove a statement.     *)
(***************************************************************************)
MaxRefs == 2        \* references of a proof step

Premisses ==
    <<Statement("", impl(p, q)), Statement("", p), Statement("", not(not(p))),
      Statement("", forall(impl_pred)),
      Statement("", forall(AtomicExpr("schueler")))>>

VarLists ==
    { <<>>, <<p>>, <<fritz>>, <<p, q>>, <<q, p>>, <<p, fritz>>,
      <<person, impl_pred, fritz>>, <<person, AtomicExpr("schueler"), fritz>>,
      <<person, impl_pred, p>>, <<person, not_pred, fritz>>,
      <<statement, not_pred, p>>, <<person, impl_pred>> }

Conclusions ==
    { p, q, not(not(p)), impl(p, q), or(p, not(p)), or(p, not(q)),
      impl(schueler(fritz), dumm(fritz)), schueler(fritz) }

RefLists ==
    UNION { { [i \in 1..n |-> Reference("theory", f[i])] :
                f \in [1..n -> 1..Len(Premisses)] } : n \in 0..MaxRefs }

InitValidate ==
    /\ \E r \in Rules :
        /\ subst = r.substs
        /\ vcall = [n |-> 0, rule |-> r.name, var_list |-> <<>>,
                    references |-> <<>>, statement |-> NoExpression,
                    thrown |-> "none", context |-> NoContext,
                    returned |-> "none", passes |-> 0, checks |-> 0]
    /\ objects = Premisses
    /\ call = NoCall
    /\ verified = "none"

\* the proof step and what proves returned are kept
Proved(step, var_list, references, expr, proved) ==
    /\ vcall' = [vcall EXCEPT !.n = @ + 1, !.var_list = var_list,
                   !.references = references, !.statement = expr,
                   !.thrown = "none", !.context = step.subst,
                   !.returned = proved.returned,
                   !.passes = proved.passes,
                   !.checks = proved.checks]
    /\ subst' = proved.substs

Proves(var_list, references, expr) ==
    /\ vcall.n = 0
    /\ \E step \in ProofStep(getRule(vcall.rule), var_list, references) :
        IF step.thrown # "none"
        THEN /\ vcall' = [vcall EXCEPT !.n = @ + 1, !.var_list = var_list,
                            !.references = references, !.statement = expr,
                            !.thrown = step.thrown, !.context = step.subst,
                            !.returned = "none", !.passes = 0, !.checks = 0]
             /\ UNCHANGED subst
        ELSE Proved(step, var_list, references, expr,
                    proves(step, subst, objects, Statement("", expr)))
    /\ UNCHANGED <<call, objects, verified>>

NextValidate ==
    \E var_list \in VarLists, references \in RefLists, expr \in Conclusions :
        Proves(var_list, references, expr)

SpecValidate == InitValidate /\ [][NextValidate]_vars

(***************************************************************************)
(* SpecRepeat: proof steps of one rule are proved one after the other on   *)
(* the same rule object.                                                   *)
(***************************************************************************)
MaxProves == 2      \* proof steps proved on one rule object

RepeatVarLists ==
    { <<p>>, <<p, q>>, <<person, impl_pred, fritz>>,
      <<person, AtomicExpr("schueler"), fritz>> }

RepeatRefLists ==
    { <<>>, <<Reference("theory", 3)>>, <<Reference("theory", 4)>>,
      <<Reference("theory", 5)>>,
      <<Reference("theory", 1), Reference("theory", 2)>>,
      <<Reference("theory", 2), Reference("theory", 1)>> }

RepeatConclusions ==
    { p, q, or(p, not(p)), impl(schueler(fritz), dumm(fritz)), schueler(fritz) }

InitRepeat ==
    /\ \E r \in Rules :
        /\ subst = r.substs
        /\ vcall = [n |-> 0, rule |-> r.name, var_list |-> <<>>,
                    references |-> <<>>, statement |-> NoExpression,
                    thrown |-> "none", context |-> NoContext,
                    returned |-> "none", passes |-> 0, checks |-> 0,
                    before |-> "none"]
    /\ objects = Premisses
    /\ call = NoCall
    /\ verified = "none"

\* the proof step and what proves returned are kept, and what the call
\* before returned
Reproved(step, var_list, references, expr, proved) ==
    /\ vcall' = [vcall EXCEPT !.n = @ + 1, !.var_list = var_list,
                   !.references = references, !.statement = expr,
                   !.context = step.subst,
                   !.returned = proved.returned,
                   !.passes = proved.passes,
                   !.checks = proved.checks,
                   !.before = vcall.returned]
    /\ subst' = proved.substs

\* ProofStep::proves of a proof step that could be built
Reproves(var_list, references, expr) ==
    /\ vcall.n < MaxProves
    /\ \E step \in ProofStep(getRule(vcall.rule), var_list, references) :
        /\ step.thrown = "none"
        /\ Reproved(step, var_list, references, expr,
                    proves(step, subst, objects, Statement("", expr)))
    /\ UNCHANGED <<call, objects, verified>>

NextRepeat ==
    \E var_list \in RepeatVarLists, references \in RepeatRefLists,
       expr \in RepeatConclusions :
        Reproves(var_list, references, expr)

SpecRepeat == InitRepeat /\ [][NextRepeat]_vars

(***************************************************************************)
(* What the claims speak of.                                               *)
(***************************************************************************)
\* the template matches the expression under the context
matches(template, expr, context) ==
    returned(check(Substitution(template), expr, context)) = "true"

\* the parameters before the i-th, bound to their arguments
bound_so_far(params, var_list, i) ==
    [n \in {params[j] : j \in 1..(i - 1)} |->
        var_list[CHOOSE j \in 1..(i - 1) : params[j] = n]]

\* the argument at position i has the type of the parameter at position i
type_fits(params, var_list, i) ==
    resolved(NodeType(params[i]), bound_so_far(params, var_list, i))
        = getType(var_list[i])

vrule == getRule(vcall.rule)

proved_step == vcall.n > 0 /\ vcall.thrown = "none"

expression_of(reference) == deref(objects, reference).expression

\* the last proof step with other references, proving another statement
reproved(references, expr) ==
    proves([thrown |-> "none", rule |-> vcall.rule, subst |-> vcall.context,
            ref_statement_list |-> references],
           vrule.substs, objects, Statement("", expr)).returned

\* C3: a deduction rule validates exactly when the number of references is
\* the number of premiss templates, every premiss template matches the
\* statement referenced at the same position and the conclusion template
\* matches the conclusion; ponens with the references in the order
\* (impl a b), a verifies and with the references exchanged it does not.
C3_DeductionValidate ==
    (proved_step /\ vrule.cls = "DeductionRule") =>
        LET n == Len(vrule.substs) - 1
            refs == vcall.references
        IN  /\ vcall.returned = "true" <=>
                  /\ Len(refs) = n
                  /\ \A i \in 1..n :
                        matches(vrule.substs[i].expr, expression_of(refs[i]),
                                vcall.context)
                  /\ matches(vrule.substs[n + 1].expr, vcall.statement,
                             vcall.context)
            /\ (vcall.rule = "ponens" /\ vcall.returned = "true") =>
                  reproved(<<refs[2], refs[1]>>, vcall.statement) = "false"
            /\ (/\ vcall.rule = "ponens" /\ vcall.var_list = <<p, q>>
                /\ vcall.statement = q) =>
                  /\ refs = <<Reference("theory", 1), Reference("theory", 2)>>
                        => vcall.returned = "true"
                  /\ refs = <<Reference("theory", 2), Reference("theory", 1)>>
                        => vcall.returned = "false"

C3_Witness ==
    /\ proved_step /\ vcall.rule = "ponens" /\ vcall.returned = "true"
    /\ vcall.references = <<Reference("theory", 1), Reference("theory", 2)>>
    /\ vcall.statement = q

\* C4: an equivalence rule validates exactly when there is one reference
\* and the two templates match its statement and the conclusion in one of
\* the two orders; a verifying application with premiss and conclusion
\* exchanged verifies too; any other number of references is rejected.
C4_EquivalenceValidate ==
    (proved_step /\ vrule.cls = "EquivalenceRule") =>
        LET s1 == vrule.substs[1].expr
            s2 == vrule.substs[2].expr
            refs == vcall.references
            c == vcall.statement
        IN  /\ vcall.returned = "true" <=>
                  /\ Len(refs) = 1
                  /\ \/ /\ matches(s1, expression_of(refs[1]), vcall.context)
                        /\ matches(s2, c, vcall.context)
                     \/ /\ matches(s1, c, vcall.context)
                        /\ matches(s2, expression_of(refs[1]), vcall.context)
            /\ Len(refs) # 1 => vcall.returned = "false"
            /\ vcall.returned = "true" =>
                  \A j \in 1..Len(objects) :
                      objects[j].expression = c =>
                          reproved(<<Reference("theory", j)>>,
                                   expression_of(refs[1])) = "true"

C4_Witness ==
    /\ proved_step /\ vcall.rule = "double_negation" /\ vcall.returned = "true"
    /\ vcall.statement = not(not(p))
    /\ \E j \in 1..Len(objects) : objects[j].expression = not(not(p))

\* C5: a tautology validates exactly when there is no reference and its
\* template matches the conclusion; excluded_middle with a bound to p
\* validates (or p (not p)) and nothing else.
C5_TautologyValidate ==
    (proved_step /\ vrule.cls = "Tautology") =>
        /\ vcall.returned = "true" <=>
              /\ vcall.references = <<>>
              /\ matches(vrule.substs[1].expr, vcall.statement, vcall.context)
        /\ (vcall.rule = "excluded_middle" /\ vcall.var_list = <<p>>) =>
              (vcall.returned = "true" <=>
                    vcall.references = <<>> /\ vcall.statement = or(p, not(p)))

C5_Witness ==
    /\ proved_step /\ vcall.rule = "excluded_middle" /\ vcall.returned = "true"
    /\ vcall.var_list = <<p>> /\ vcall.statement = or(p, not(p))

\* C7: an argument whose type is not the type of its parameter (under the
\* parameters bound before it) makes the construction of the proof step
\* throw a TypeException, and there is no proof step; excluded_middle with
\* its parameter bound to fritz, a person, is refused this way.
C7_TypeMismatch ==
    (/\ vcall.n > 0
     /\ \E i \in 1..Min(Len(vrule.params), Len(vcall.var_list)) :
            ~type_fits(vrule.params, vcall.var_list, i)) =>
        /\ vcall.thrown = "TypeException"
        /\ vcall.returned = "none" /\ vcall.passes = 0

C7_Witness ==
    /\ vcall.n > 0 /\ vcall.rule = "excluded_middle"
    /\ vcall.var_list = <<fritz>> /\ vcall.thrown = "TypeException"

\* C8: the types of parameters are compared with the parameters bound so
\* far replaced by their substitutes: with T bound to person, specialization
\* takes for P exactly the predicates over person and for y exactly the
\* expressions of type person.
C8_ContextComparator ==
    (vcall.n > 0 /\ Len(vcall.var_list) = Len(vrule.params)) =>
        /\ vcall.thrown = "none" <=>
              \A i \in 1..Len(vrule.params) :
                    type_fits(vrule.params, vcall.var_list, i)
        /\ (vcall.rule = "specialization" /\ vcall.var_list[1] = person) =>
              (vcall.thrown = "none" <=>
                  /\ getType(vcall.var_list[2]) = LambdaType(<<person>>, statement)
                  /\ getType(vcall.var_list[3]) = person)

C8_Witness ==
    /\ vcall.n > 0 /\ vcall.rule = "specialization" /\ vcall.thrown = "none"
    /\ vcall.var_list = <<person, impl_pred, fritz>>

\* C9: a proof step with fewer or more arguments than the rule has
\* parameters is refused with an ArityMismatch, and no proof step is built.
C9_ArityMismatch ==
    (vcall.n > 0 /\ Len(vcall.var_list) # Len(vrule.params)) =>
        vcall.thrown = "ArityMismatch" /\ vcall.returned = "none"

\* C10 as claimed: a proof step with the wrong number of references is
\* refused by the caller, and validate_pass of the rule is never run on it.
C10_CallerEnforcesCount ==
    (proved_step /\ Len(vcall.references) # premisses(vrule)) =>
        vcall.returned = "false" /\ vcall.passes = 0

\* C10 amended: a proof step with the wrong number of references is
\* rejected: proves delegates to validate_pass of the rule, which returns
\* false on its own count check before any template is matched.
C10_RuleRejectsCount ==
    (proved_step /\ Len(vcall.references) # premisses(vrule)) =>
        vcall.returned = "false" /\ vcall.passes = 1 /\ vcall.checks = 0

C10_Witness ==
    /\ proved_step /\ vcall.rule = "ponens"
    /\ Len(vcall.references) = 1 /\ vcall.returned = "false"

(***************************************************************************)
(* Theory (core/theory.cpp): the list of objects, and the references of    *)
(* the parser into it.  A description string is the sequence of its        *)
(* characters.                                                             *)
(***************************************************************************)
\* Theory::add: the list with the object inserted behind the position after
Theory_add(objs, object, after) ==
    SubSeq(objs, 1, after) \o <<object>> \o SubSeq(objs, after + 1, Len(objs))

\* Theory::get: the position of the object of that name, or the end
Theory_get(objs, name) ==
    IF \E i \in 1..Len(objs) : objs[i].name = name
    THEN CHOOSE i \in 1..Len(objs) : objs[i].name = name
    ELSE Len(objs) + 1

npos == -1

\* std::string::find of a character
find(str, char) ==
    IF \E i \in 1..Len(str) : str[i] = char
    THEN (CHOOSE i \in 1..Len(str) :
                str[i] = char /\ \A j \in 1..(i - 1) : str[j] # char) - 1
    ELSE npos

\* std::string::substr(pos, count); a count of npos takes the rest
substr(str, pos, count) ==
    IF count = npos \/ pos + count > Len(str) THEN SubSeq(str, pos + 1, Len(str))
    ELSE SubSeq(str, pos + 1, pos + count)

Digits == <<"0", "1", "2", "3", "4", "5", "6", "7", "8", "9">>

isDigit(char) == \E d \in 1..10 : Digits[d] = char

digit(char) == (CHOOSE d \in 1..10 : Digits[d] = char) - 1

\* std::istringstream >> int: the leading digits, 0 when there are none
RECURSIVE extract(_, _, _)
extract(str, i, value) ==
    IF i > Len(str) \/ ~isDigit(str[i]) THEN value
    ELSE extract(str, i + 1, 10 * value + digit(str[i]))

this == <<"t", "h", "i", "s">>

\* a reference that does not step back
Reference_base(objs, this_theory, this_it, descr) ==
    LET pos_tilde == find(descr, "~")
        base == IF pos_tilde # 0 THEN substr(descr, 0, pos_tilde) ELSE descr
    IN  Reference(this_theory,
                  IF base = this THEN this_it ELSE Theory_get(objs, base))

\* Reference::Reference from a description, in a theory without parent
Reference_description(objs, this_theory, this_it, descr) ==
    LET pos_tilde == find(descr, "~")
        base == IF pos_tilde # 0 THEN substr(descr, 0, pos_tilde)
                ELSE descr
        diff == IF pos_tilde # 0
                THEN extract(substr(descr, pos_tilde + 1, npos), 1, 0)
                ELSE 0
        ref == IF base = this THEN this_it ELSE Theory_get(objs, base)
    IN  Reference(this_theory, ref - diff)

\* the lambda of Theory::verify on the object at position i: what it returned
\* and the Substitution objects of the rules as the proof leaves them
proved_with(substs, name, proved) ==
    [returned |-> proved.returned,
     substs |-> [substs EXCEPT ![name] = proved.substs]]

verify_object(objs, substs, i) ==
    IF /\ objs[i].type = statement
       /\ objs[i].cls = "Statement"
       /\ hasProof(objs[i])
    THEN proved_with(substs, getProof(objs[i]).rule,
                     proves(getProof(objs[i]), substs[getProof(objs[i]).rule],
                            objs, objs[i]))
    ELSE [returned |-> "true", substs |-> substs]

\* Theory::verify: std::all_of over the objects from position i; it stops
\* at the first object that does not return true
RECURSIVE all_of(_, _, _), all_of_rest(_, _, _)
all_of(objs, substs, i) ==
    IF i > Len(objs) THEN [returned |-> "true", substs |-> substs]
    ELSE all_of_rest(objs, i, verify_object(objs, substs, i))

all_of_rest(objs, i, result) ==
    IF result.returned # "true" THEN result
    ELSE all_of(objs, result.substs, i + 1)

verify_last(objs, substs) == all_of(objs, substs, Len(objs))

Theory_verify(objs, substs) == all_of(objs, substs, 1)

(***************************************************************************)
(* Spec: a theory is written statement by statement, as the parser builds  *)
(* it (parseStatement, parseProofStep), and verified.                      *)
(***************************************************************************)
MaxStatements == 4      \* statements of a theory

\* the declarations the theories start with
Preambles ==
    { <<Node("p"), Node("q")>>,
      <<Node("person"), Node("schueler"), Node("dumm"), Node("fritz")>> }

Axioms ==
    { p, impl(p, q), schueler(fritz), forall(impl_pred),
      forall(AtomicExpr("schueler")) }

tilde(n) == this \o <<"~", Digits[n + 1]>>

Lemma(expr, name, var_list, references) ==
    [expr |-> expr, rule |-> name, var_list |-> var_list,
     references |-> references]

Lemmas ==
    { Lemma(impl(schueler(fritz), dumm(fritz)), "specialization",
            <<person, impl_pred, fritz>>, <<tilde(1)>>),
      Lemma(dumm(fritz), "ponens",
            <<schueler(fritz), dumm(fritz)>>, <<tilde(1), tilde(3)>>),
      Lemma(dumm(fritz), "ponens",
            <<schueler(fritz), dumm(fritz)>>, <<tilde(3), tilde(1)>>),
      Lemma(schueler(fritz), "specialization",
            <<person, AtomicExpr("schueler"), fritz>>, <<tilde(1)>>),
      Lemma(q, "ponens", <<p, q>>, <<tilde(1), tilde(2)>>),
      Lemma(or(p, not(p)), "excluded_middle", <<p>>, <<>>),
      Lemma(dumm(fritz), "excluded_middle", <<fritz>>, <<>>),
      Lemma(not(not(p)), "double_negation", <<p>>, <<this>>),
      Lemma(not(not(p)), "double_negation", <<p>>, <<tilde(1)>>) }

\* the nodes an expression names
RECURSIVE nodes(_)
nodes(expr) ==
    CASE expr.cls = "ATOMIC" -> {expr.node}
      [] expr.cls = "LAMBDACALL" ->
            {expr.node} \cup UNION {nodes(expr.args[i]) : i \in 1..Len(expr.args)}
      [] expr.cls = "NEGATION" -> nodes(expr.expr)
      [] expr.cls = "CONNECTIVE" -> nodes(expr.first) \cup nodes(expr.second)
      [] expr.cls = "QUANTIFIER" -> nodes(expr.predicate)
      [] expr.cls = "LAMBDA" ->
            nodes(expr.expression) \ {expr.params[i] : i \in 1..Len(expr.params)}
      [] OTHER -> {}

\* the expression names declared objects only
declared(expr) == nodes(expr) \subseteq {objects[i].name : i \in 1..Len(objects)}

statement_positions == {i \in 1..Len(objects) : objects[i].cls = "Statement"}

running == verified \in {"none", "true", "false"}

Init ==
    /\ objects \in Preambles
    /\ subst = [name \in {r.name : r \in Rules} |-> getRule(name).substs]
    /\ verified = "none"
    /\ call = NoCall
    /\ vcall = NoCall

\* parseStatement of an axiom
AddAxiom(expr) ==
    /\ running
    /\ Cardinality(statement_positions) < MaxStatements
    /\ declared(expr)
    /\ objects' = Theory_add(objects, Statement("", expr), Len(objects))
    /\ verified' = "none"
    /\ UNCHANGED <<subst, call, vcall>>

\* parseStatement of a lemma: the statement is added, then the proof step is
\* parsed, and it is attached unless its construction threw a TypeException
AddLemma(lemma) ==
    LET stmt == Statement("", lemma.expr)
        added == Theory_add(objects, stmt, Len(objects))
        position == Len(objects) + 1
        references == [i \in 1..Len(lemma.references) |->
                          Reference_description(added, "theory", position,
                                                lemma.references[i])]
    IN  /\ running
        /\ Cardinality(statement_positions) < MaxStatements
        /\ declared(lemma.expr)
        /\ \A i \in 1..Len(lemma.var_list) : declared(lemma.var_list[i])
        /\ Len(lemma.var_list) = Len(getRule(lemma.rule).params)
        /\ \A i \in 1..Len(references) :
                /\ references[i].ref \in 1..Len(added)
                /\ added[references[i].ref].cls = "Statement"
        /\ \E step \in ProofStep(getRule(lemma.rule), lemma.var_list, references) :
                objects' = IF step.thrown = "none"
                           THEN [added EXCEPT ![position] = addProof(stmt, step)]
                           ELSE added
        /\ verified' = "none"
        /\ UNCHANGED <<subst, call, vcall>>

\* the outcome of Theory::verify is kept
Verified(result) ==
    /\ verified' = result.returned
    /\ subst' = result.substs

\* Theory::verify; an exception of the matcher leaves it uncaught
Verify ==
    /\ verified = "none"
    /\ Verified(Theory_verify(objects, subst))
    /\ UNCHANGED <<objects, call, vcall>>

Next ==
    \/ \E expr \in Axioms : AddAxiom(expr)
    \/ \E lemma \in Lemmas : AddLemma(lemma)
    \/ Verify

Spec == Init /\ [][Next]_vars

\* the proof of the statement at position i validates
step_validates(i) ==
    LET step == getProof(objects[i])
    IN  proves(step, getRule(step.rule).substs, objects, objects[i]).returned
            = "true"

\* C1: verify returns true exactly when the proof step of every statement
\* that has one validates; statements without a proof count as true, so a
\* theory of axioms verifies.
C1_VerifyAllProofs ==
    verified # "none" =>
        /\ verified = "true" <=>
              \A i \in statement_positions : hasProof(objects[i]) => step_validates(i)
        /\ (\A i \in statement_positions : ~hasProof(objects[i])) => verified = "true"

C1_Witness ==
    /\ verified = "false"
    /\ \E i, j \in statement_positions :
            /\ hasProof(objects[i]) /\ step_validates(i)
            /\ hasProof(objects[j]) /\ ~step_validates(j)
    /\ \E i \in statement_positions : ~hasProof(objects[i])

\* the theory of the reference test: two axioms and two lemmas about fritz
FritzTheory ==
    LET preamble == <<Node("person"), Node("schueler"), Node("dumm"), Node("fritz")>>
        lemma1 == Statement("", impl(schueler(fritz), dumm(fritz)))
        lemma2 == Statement("", dumm(fritz))
        with1 == preamble \o <<Statement("", schueler(fritz)),
                               Statement("", forall(impl_pred)), lemma1>>
        step1 == CHOOSE step \in
                    ProofStep(specialization, <<person, impl_pred, fritz>>,
                        <<Reference_description(with1, "theory", 7, tilde(1))>>) :
                    TRUE
        with2 == [with1 EXCEPT ![7] = addProof(lemma1, step1)] \o <<lemma2>>
        step2 == CHOOSE step \in
                    ProofStep(ponens, <<schueler(fritz), dumm(fritz)>>,
                        <<Reference_description(with2, "theory", 8, tilde(1)),
                          Reference_description(with2, "theory", 8, tilde(3))>>) :
                    TRUE
    IN  [with2 EXCEPT ![8] = addProof(lemma2, step2)]

\* C6: the theory of fritz (axioms (schueler fritz) and forall x: schueler x
\* => dumm x, lemma1 by specialization from the previous statement, lemma2
\* by ponens from lemma1 and the first axiom) verifies.
C6_FritzVerifies ==
    (objects = FritzTheory /\ verified # "none") =>
        /\ verified = "true"
        /\ hasProof(objects[7]) /\ hasProof(objects[8])
        /\ getProof(objects[7]).ref_statement_list = <<Reference("theory", 6)>>
        /\ getProof(objects[8]).ref_statement_list
                = <<Reference("theory", 7), Reference("theory", 5)>>

C6_Witness == objects = FritzTheory /\ verified = "true"

\* the proof step of the statement at position i calls, in a template of its
\* rule, a parameter that its context binds to an atomic expression
calls_atomic(i) ==
    LET step == getProof(objects[i])
        templates == getRule(step.rule).substs
    IN  \E k \in 1..Len(templates) : ~callsLambdas(templates[k].expr, step.subst)

\* C12: when a proof step binds a called parameter to an atomic expression
\* (specialization with P bound to the predicate name schueler), verify ends
\* with a result or a typed error, never with an unhandled exception.
C12_FailsCleanly ==
    (/\ verified # "none"
     /\ \E i \in statement_positions : hasProof(objects[i]) /\ calls_atomic(i)) =>
        verified \in {"true", "false", "TypeException"}

\* C13: what validate returns depends on the rule, the context, the
\* references and the conclusion only: after any calls on the same rule
\* object (true, false or left by an exception) it returns what it returns
\* on a rule object that was never used.
C13_ValidateIndependent ==
    vcall.n > 0 =>
        vcall.returned = reproved(vcall.references, vcall.statement)

C13_Witness ==
    /\ vcall.n = 2 /\ vcall.before = "int" /\ vcall.returned = "true"
    /\ subst # getRule(vcall.rule).substs

(***************************************************************************)
(* Theory with its name index (core/theory.cpp).  The objects of a theory  *)
(* are the nodes of a std::list, which is a ring through its sentinel; an  *)
(* iterator is the theory and the node it points to, node 0 being the      *)
(* sentinel (end).  A node keeps its number when others are inserted.      *)
(***************************************************************************)
MaxObjects == 3     \* objects added to the theories altogether

Identifiers == {"", "a", "b"}

iterator(t, n) == [theory |-> t, node |-> n]

\* iterator(): points nowhere
singular == iterator("nullptr", 0)

\* Theory::Theory(parent, parent_object)
Theory(parent, parent_object) ==
    [parent |-> parent, parent_object |-> parent_object,
     objects |-> <<>>, name_space |-> <<>>]

Theory_end(t) == iterator(t, 0)

Theory_begin(theories, t) ==
    IF theories[t].objects = <<>> THEN Theory_end(t)
    ELSE iterator(t, theories[t].objects[1].node)

\* where the node of an iterator stands in the list; the sentinel stands
\* behind the last
position(objs, it) ==
    IF \E i \in 1..Len(objs) : objs[i].node = it.node
    THEN CHOOSE i \in 1..Len(objs) : objs[i].node = it.node
    ELSE Len(objs) + 1

\* ++it: the node behind; behind the sentinel stands the first node
increment(theories, it) ==
    LET objs == theories[it.theory].objects
        i == position(objs, it)
        first == Theory_begin(theories, it.theory)
    IN  IF it.node = 0 THEN first
        ELSE IF i >= Len(objs) THEN Theory_end(it.theory)
        ELSE iterator(it.theory, objs[i + 1].node)

\* --it: the node before; before the first node stands the sentinel
decrement(theories, it) ==
    LET objs == theories[it.theory].objects
        i == position(objs, it)
    IN  IF i = 1 THEN Theory_end(it.theory)
        ELSE iterator(it.theory, objs[i - 1].node)

\* std::list::push_back instead of insert
objects_push_back(t, objs, it, name) ==
    [objects |-> Append(objs, [node |-> Len(objs) + 1, name |-> name]),
     position |-> iterator(t, Len(objs) + 1)]

\* std::list::insert: the new node stands before the node of it
objects_insert(t, objs, it, name) ==
    LET i == position(objs, it)
        n == Len(objs) + 1
    IN  [objects |-> SubSeq(objs, 1, i - 1) \o <<[node |-> n, name |-> name]>>
                        \o SubSeq(objs, i, Len(objs)),
         position |-> iterator(t, n)]

\* an add that does not look for the name
Theory_add_unchecked(theories, t, name, after) ==
    LET inserted == objects_insert(t, theories[t].objects,
                                   increment(theories, after), name)
    IN  [theories |-> [theories EXCEPT
                        ![t].objects = inserted.objects,
                        ![t].name_space =
                            IF name # "" THEN (name :> inserted.position) @@ @
                            ELSE @],
         returned |-> inserted.position,
         thrown |-> "none"]

\* Theory::add of an object of that name to theory t: the theories after
\* the call, and what it returned or threw
Theory_add_object(theories, t, name, after) ==
    IF name \notin DOMAIN theories[t].name_space
    THEN LET inserted == objects_insert(t, theories[t].objects,
                                        increment(theories, after), name)
         IN  [theories |-> [theories EXCEPT
                             ![t].objects = inserted.objects,
                             ![t].name_space =
                                 IF name # ""
                                 THEN (name :> inserted.position) @@ @
                                 ELSE @],
              returned |-> inserted.position,
              thrown |-> "none"]
    ELSE [theories |-> theories, returned |-> singular,
          thrown |-> "DuplicateName"]

\* Theory::get: the entry of the own index, else what the parent gets,
\* else the own end
RECURSIVE Theory_get_reference(_, _, _)
Theory_get_reference(theories, t, reference) ==
    IF reference \in DOMAIN theories[t].name_space
    THEN theories[t].name_space[reference]
    ELSE IF theories[t].parent # "nullptr"
    THEN Theory_get_reference(theories, theories[t].parent, reference)
    ELSE Theory_end(t)

(***************************************************************************)
(* SpecTheory: objects are added to a theory and to a subtheory of it, and *)
(* names are looked up as Parser::getNode does.                            *)
(***************************************************************************)
NoOperation ==
    [op |-> "none", theory |-> "nullptr", name |-> "", after |-> singular,
     returned |-> singular, thrown |-> "none", found |-> FALSE,
     before |-> <<>>]

InitTheory ==
    /\ objects = [root |-> Theory("nullptr", singular),
                  child |-> Theory("root", Theory_end("root"))]
    /\ call = NoOperation
    /\ subst = <<>>
    /\ vcall = NoCall
    /\ verified = "none"

added(theories) ==
    Len(theories["root"].objects) + Len(theories["child"].objects)

iterators(theories, t) ==
    { iterator(t, n) : n \in 0..Len(theories[t].objects) }

\* how the call of add went
Added(t, name, after, result) ==
    /\ objects' = result.theories
    /\ call' = [op |-> "add", theory |-> t, name |-> name, after |-> after,
                returned |-> result.returned, thrown |-> result.thrown,
                found |-> FALSE, before |-> objects]

Add(t, name, after) ==
    /\ added(objects) < MaxObjects
    /\ Added(t, name, after, Theory_add_object(objects, t, name, after))
    /\ UNCHANGED <<subst, vcall, verified>>

\* how the lookup went: the caller takes everything but the end of the
\* theory it asked for an object
Got(t, name, it) ==
    call' = [op |-> "get", theory |-> t, name |-> name, after |-> singular,
             returned |-> it, thrown |-> "none",
             found |-> (it # Theory_end(t)), before |-> objects]

getNode(t, name) ==
    /\ name # ""
    /\ Got(t, name, Theory_get_reference(objects, t, name))
    /\ UNCHANGED <<objects, subst, vcall, verified>>

NextTheory ==
    \/ \E t \in DOMAIN objects, name \in Identifiers :
        \E after \in iterators(objects, t) : Add(t, name, after)
    \/ \E t \in DOMAIN objects, name \in Identifiers : getNode(t, name)

SpecTheory == InitTheory /\ [][NextTheory]_vars

names_of(theory) ==
    { theory.objects[i].name : i \in 1..Len(theory.objects) } \ {""}

\* the index holds the names of the objects, each with its node
in_sync(theory, t) ==
    /\ DOMAIN theory.name_space = names_of(theory)
    /\ \A i \in 1..Len(theory.objects) :
        theory.objects[i].name # "" =>
            theory.name_space[theory.objects[i].name]
                = iterator(t, theory.objects[i].node)

unique_names(theory) ==
    \A i, j \in 1..Len(theory.objects) :
        (i # j /\ theory.objects[i].name # "")
            => theory.objects[i].name # theory.objects[j].name

\* C14: after any adds no two objects of a theory share a non-empty name
\* and the index holds exactly the non-empty names, each with the position
\* of its object; an add of a name the theory has throws DuplicateName and
\* changes nothing; an object without name is always added.
C14_NameIndex ==
    /\ \A t \in DOMAIN objects :
        unique_names(objects[t]) /\ in_sync(objects[t], t)
    /\ call.op = "add" =>
        /\ call.thrown = "DuplicateName" <=>
            (call.name # "" /\ call.name \in names_of(call.before[call.theory]))
        /\ call.thrown = "DuplicateName" => objects = call.before
        /\ call.thrown = "none" =>
            Len(objects[call.theory].objects)
                = Len(call.before[call.theory].objects) + 1

C14_Witness ==
    /\ call.op = "add" /\ call.thrown = "DuplicateName"
    /\ \E i \in 1..Len(objects[call.theory].objects) :
        objects[call.theory].objects[i].name = ""
    /\ \E t \in DOMAIN objects : objects[t].name_space # <<>>

\* the list without the node of an iterator
RECURSIVE without(_, _)
without(objs, it) ==
    IF objs = <<>> THEN <<>>
    ELSE IF Head(objs).node = it.node THEN Tail(objs)
    ELSE <<Head(objs)>> \o without(Tail(objs), it)

succeeded == call.op = "add" /\ call.thrown = "none"

\* the returned position is that of the new object, and the objects that
\* were there stand in the order they stood in
placed ==
    /\ call.returned.theory = call.theory
    /\ \E i \in 1..Len(objects[call.theory].objects) :
        objects[call.theory].objects[i]
            = [node |-> call.returned.node, name |-> call.name]
    /\ without(objects[call.theory].objects, call.returned)
        = call.before[call.theory].objects
    /\ \A t \in DOMAIN objects \ {call.theory} :
        objects[t].objects = call.before[t].objects

\* C15 (as the code has it): a successful add(object, after) returns the
\* position of the new object, keeps the order of the others, and places
\* the object right behind the object after points to; after = begin() of
\* a theory that is not empty points to the first object, so the new one
\* becomes the second; it becomes the first when after is end(), which
\* begin() of an empty theory is.
C15_AddAfter ==
    succeeded =>
        /\ placed
        /\ position(objects[call.theory].objects, call.returned)
            = IF call.after.node = 0 THEN 1
              ELSE position(objects[call.theory].objects, call.after) + 1

C15_Witness ==
    /\ succeeded
    /\ call.before[call.theory].objects # <<>>
    /\ call.after = Theory_begin(call.before, call.theory)
    /\ position(objects[call.theory].objects, call.returned) = 2
    /\ Len(objects[call.theory].objects) = 3

\* C15 (as stated): a successful add places the object right behind the
\* object at after, returns its position and keeps the order of the others;
\* with after = begin() the object becomes the first, also in a theory that
\* is not empty.
C15_AddAtBegin ==
    succeeded =>
        /\ placed
        /\ call.after.node # 0 =>
            position(objects[call.theory].objects, call.returned)
                = position(objects[call.theory].objects, call.after) + 1
        /\ call.after = Theory_begin(call.before, call.theory) =>
            position(objects[call.theory].objects, call.returned) = 1

\* the theories on the parent chain of t, the nearest first
RECURSIVE chain(_, _)
chain(theories, t) ==
    IF t = "nullptr" THEN <<>>
    ELSE <<t>> \o chain(theories, theories[t].parent)

holders(theories, t, name) ==
    { k \in 1..Len(chain(theories, t)) :
        name \in names_of(theories[chain(theories, t)[k]]) }

nearest(theories, t, name) ==
    chain(theories, t)[CHOOSE k \in holders(theories, t, name) :
                            \A l \in holders(theories, t, name) : k <= l]

\* C16: get(name) returns the position of the object of that name in the
\* nearest theory on the parent chain that has one, and the caller finds
\* nothing exactly when no theory on the chain has one.
C16_GetNearest ==
    call.op = "get" =>
        IF holders(objects, call.theory, call.name) # {}
        THEN /\ call.found
             /\ call.returned.theory = nearest(objects, call.theory, call.name)
             /\ \E i \in 1..Len(objects[call.returned.theory].objects) :
                 objects[call.returned.theory].objects[i]
                     = [node |-> call.returned.node, name |-> call.name]
        ELSE ~call.found

(***************************************************************************)
(* References into theories with parents (core/theory.cpp).  A reference   *)
(* is a theory and an iterator; a description is the sequence of its       *)
(* characters.  The objects here have names of one character.              *)
(***************************************************************************)
parent == <<"p", "a", "r", "e", "n", "t">>

parent_level == parent \o <<"^">>

\* the name a description spells; none of the others names an object
word(descr) == IF Len(descr) = 1 THEN descr[1] ELSE ""

\* Reference::operator*: the object an iterator points to
object_at(theories, it) ==
    theories[it.theory].objects[position(theories[it.theory].objects, it)]

points_to_object(theories, it) ==
    /\ it.theory \in DOMAIN theories
    /\ \E i \in 1..Len(theories[it.theory].objects) :
        theories[it.theory].objects[i].node = it.node

\* while (diff--) --ref: a diff below zero counts down through the 32 bits
\* of an int before it is zero, 2^32 + diff steps; the list is a ring
backward_steps(diff, ring) ==
    IF diff >= 0 THEN diff
    ELSE ((((65536 % ring) * (65536 % ring)) % ring)
            + ring - ((0 - diff) % ring)) % ring

RECURSIVE step_back(_, _, _)
step_back(theories, it, steps) ==
    IF steps = 0 THEN it
    ELSE step_back(theories, decrement(theories, it), steps - 1)

\* Reference::operator-=
wind_back(theories, it, diff) ==
    step_back(theories, it,
              backward_steps(diff, Len(theories[it.theory].objects) + 1))

\* operator-(const Reference&, int)
Reference_minus(theories, a, back) ==
    Reference(a.theory, wind_back(theories, a.ref, back))

RECURSIVE forward(_, _, _, _)
forward(theories, it, target, diff) ==
    IF it = target THEN diff
    ELSE forward(theories, increment(theories, it), target, diff + 1)

\* operator-(const Reference&, const Reference&)
Reference_difference(theories, a, b) ==
    IF a.theory # b.theory THEN -1
    ELSE forward(theories, a.ref, b.ref, 0)

\* operator==(const Reference&, const Reference&)
Reference_equal(theories, a, b) == Reference_difference(theories, a, b) = 0

\* while (level--) { theory = theory->parent; ref = theory->parent_object; }
RECURSIVE get_up(_, _, _, _)
get_up(theories, theory, ref, level) ==
    IF level = 0 \/ theory = "nullptr" THEN Reference(theory, ref)
    ELSE get_up(theories, theories[theory].parent,
                IF theories[theory].parent = "nullptr" THEN singular
                ELSE theories[theories[theory].parent].parent_object,
                level - 1)

\* the member theory of a reference built from a name is never set: it
\* has any value
indeterminate(theories) == DOMAIN theories \cup {"nullptr"}

\* Reference::Reference from a description: the references the
\* constructor can leave
Reference_from(theories, this_theory, this_it, descr) ==
    LET pos_tilde == find(descr, "~")
        base == IF pos_tilde # 0 THEN substr(descr, 0, pos_tilde) ELSE descr
        diff == IF pos_tilde # 0
                THEN extract(substr(descr, pos_tilde + 1, npos), 1, 0)
                ELSE 0
        based == IF base = this THEN {Reference(this_theory, this_it)}
                 ELSE IF base = parent
                 THEN {Reference(theories[this_theory].parent,
                                 theories[this_theory].parent_object)}
                 ELSE IF substr(base, 0, 6) = parent_level
                 THEN {get_up(theories, this_theory, this_it,
                              extract(substr(base, 7, npos), 1, 0))}
                 ELSE { Reference(theory,
                                  Theory_get_reference(theories, this_theory,
                                                       word(base))) :
                            theory \in indeterminate(theories) }
    IN  { Reference(r.theory, wind_back(theories, r.ref, diff)) : r \in based }

\* the inner loop of getDescription: back from level_head to ref or to the
\* end of the level
RECURSIVE walk(_, _, _, _, _)
walk(theories, level, level_head, ref, diff) ==
    IF level_head # Theory_end(level) /\ level_head # ref
    THEN walk(theories, level, decrement(theories, level_head), ref, diff + 1)
    ELSE [level_head |-> level_head, diff |-> diff]

\* the outer loop of getDescription
RECURSIVE levels(_, _, _, _, _)
levels(theories, level, walked, level_val, ref) ==
    IF theories[level].parent # "nullptr" /\ walked.level_head # ref
    THEN levels(theories, theories[level].parent,
                walk(theories, theories[level].parent,
                     theories[level].parent_object, ref, 0),
                level_val + 1, ref)
    ELSE [level_val |-> level_val, diff |-> walked.diff]

\* operator<< of a small int
decimal(n) == <<Digits[n + 1]>>

described(found) ==
    (IF found.level_val > 1 THEN parent_level \o decimal(found.level_val)
     ELSE IF found.level_val = 1 THEN parent
     ELSE this) \o <<"~">> \o decimal(found.diff)

\* Reference::getDescription
getDescription(theories, r, this_theory, this_it) ==
    IF object_at(theories, r.ref).name # ""
    THEN <<object_at(theories, r.ref).name>>
    ELSE described(levels(theories, this_theory,
                          walk(theories, this_theory, this_it, r.ref, 0),
                          0, r.ref))

(***************************************************************************)
(* SpecReference: references into a theory, a subtheory of it and a        *)
(* subtheory of that are described, parsed, wound back and subtracted,     *)
(* one operation in each behaviour.                                        *)
(***************************************************************************)
MaxBack == 2        \* steps a reference is wound back, or forth

\* Theory::Theory(std::initializer_list): each object is added behind the
\* one before
RECURSIVE add_all(_, _, _)
add_all(result, t, names) ==
    IF names = <<>> THEN result.theories
    ELSE add_all(Theory_add_object(result.theories, t, Head(names),
                                   result.returned),
                 t, Tail(names))

filled(theories, t, names) ==
    add_all([theories |-> theories, returned |-> Theory_begin(theories, t)],
            t, names)

\* a theory of that parent_object, filled with those objects
subtheory(theories, t, parent_theory, parent_object, names) ==
    filled((t :> Theory(parent_theory, parent_object)) @@ theories, t, names)

RootTheories ==
    { filled([root |-> Theory("nullptr", singular)], "root", names) :
        names \in { <<"", "">>, <<"", "a">>, <<"", "", "">> } }

ChildTheories ==
    UNION { { subtheory(theories, "child", "root", parent_object, names) :
                parent_object \in iterators(theories, "root"),
                names \in { <<"">>, <<"", "b">> } } :
            theories \in RootTheories }

ReferenceTheories ==
    UNION { { subtheory(theories, "grandchild", "child", parent_object, names) :
                parent_object \in iterators(theories, "child"),
                names \in { <<"">>, <<"", "">> } } :
            theories \in ChildTheories }

InitReference ==
    /\ objects \in ReferenceTheories
    /\ call = NoOperation
    /\ subst = <<>>
    /\ vcall = NoCall
    /\ verified = "none"

\* the references to the objects of the theories
References(theories) ==
    UNION { { Reference(t, it) : it \in iterators(theories, t) } :
            t \in DOMAIN theories }

ObjectReferences(theories) ==
    { r \in References(theories) : r.ref.node # 0 }

Descriptions ==
    { this, this \o <<"~", "1">>, this \o <<"~", "2">>,
      parent, parent \o <<"~", "1">>,
      parent_level \o <<"1", "~", "0">>, parent_level \o <<"2", "~", "1">>,
      <<"a">>, <<"a", "~", "0">>, <<"a", "~", "1">>, <<"b">>, <<"c">> }

\* the prefix of a description before its tilde
base_of(descr) ==
    IF find(descr, "~") # 0 THEN substr(descr, 0, find(descr, "~")) ELSE descr

\* Reference::getDescription of a reference to an object at a position
Describe(r, t, it) ==
    /\ call = NoOperation
    /\ call' = [op |-> "getDescription", reference |-> r, this_theory |-> t,
                this_it |-> it,
                description |-> getDescription(objects, r, t, it)]
    /\ UNCHANGED <<objects, subst, vcall, verified>>

\* Parser::parseReference: expect(WORD) writes an error for another token
parseReference(t, it, token, descr) ==
    /\ call = NoOperation
    /\ base_of(descr) = parent => objects[t].parent # "nullptr"
    /\ \E reference \in IF token = "WORD"
                        THEN Reference_from(objects, t, it, descr)
                        ELSE {Reference("nullptr", singular)} :
        call' = [op |-> "parseReference", this_theory |-> t, this_it |-> it,
                 token |-> token, description |-> descr,
                 reference |-> reference,
                 errors |-> IF token = "WORD" THEN 0 ELSE 1]
    /\ UNCHANGED <<objects, subst, vcall, verified>>

\* operator-(const Reference&, int)
Minus(r, back) ==
    /\ call = NoOperation
    /\ call' = [op |-> "minus", reference |-> r, back |-> back,
                returned |-> Reference_minus(objects, r, back)]
    /\ UNCHANGED <<objects, subst, vcall, verified>>

\* operator-(const Reference&, const Reference&)
Difference(a, b) ==
    /\ call = NoOperation
    /\ call' = [op |-> "difference", a |-> a, b |-> b,
                returned |-> Reference_difference(objects, a, b)]
    /\ UNCHANGED <<objects, subst, vcall, verified>>

NextReference ==
    \/ \E r \in ObjectReferences(objects), t \in DOMAIN objects :
        \E it \in iterators(objects, t) : Describe(r, t, it)
    \/ \E t \in DOMAIN objects, token \in {"WORD", "OPENING"},
          descr \in Descriptions :
        \E it \in iterators(objects, t) : parseReference(t, it, token, descr)
    \/ \E r \in ObjectReferences(objects), back \in (0 - MaxBack)..MaxBack :
        Minus(r, back)
    \/ \E a, b \in ObjectReferences(objects) : Difference(a, b)

SpecReference == InitReference /\ [][NextReference]_vars

\* the position a description of that many parent levels starts from
RECURSIVE level_head_of(_, _, _, _)
level_head_of(theories, t, it, j) ==
    IF j = 0 THEN it
    ELSE IF theories[t].parent = "nullptr" THEN singular
    ELSE level_head_of(theories, theories[t].parent,
                       theories[t].parent_object, j - 1)

\* r is the object at the head of level j, or one before it
walks_back_to(theories, r, t, it, j) ==
    LET head == level_head_of(theories, t, it, j)
    IN  /\ points_to_object(theories, head)
        /\ head.theory = r.ref.theory
        /\ position(theories[head.theory].objects, r.ref)
            <= position(theories[head.theory].objects, head)

reachable_by_name(theories, r, t) ==
    /\ object_at(theories, r.ref).name # ""
    /\ Theory_get_reference(theories, t, object_at(theories, r.ref).name)
        = r.ref

reachable(theories, r, t, it) ==
    \/ reachable_by_name(theories, r, t)
    \/ \E j \in 0..Len(chain(theories, t)) : walks_back_to(theories, r, t, it, j)

\* C17: a reference to an object that can be reached from a position by
\* its name, by steps back in the theory or by parent levels and steps
\* back in an ancestor is described by a description that, parsed at the
\* same position, refers to the same object.
C17_DescriptionRoundTrip ==
    (/\ call.op = "getDescription"
     /\ reachable(objects, call.reference, call.this_theory, call.this_it)) =>
        \A parsed \in Reference_from(objects, call.this_theory, call.this_it,
                                     call.description) :
            parsed.ref = call.reference.ref

\* C18: a reference whose base names no object of the theory or of its
\* ancestors is reported as an error and no reference is made of it.
C18_UndefinedReference ==
    (/\ call.op = "parseReference" /\ call.token = "WORD"
     /\ base_of(call.description) \notin {this, parent}
     /\ substr(base_of(call.description), 0, 7) # parent_level
     /\ holders(objects, call.this_theory, word(base_of(call.description))) = {}) =>
        /\ call.errors > 0
        /\ call.reference = Reference("nullptr", singular)

predecessors(theories, r) == position(theories[r.ref.theory].objects, r.ref) - 1

\* C19: for a reference r with at least k >= 0 predecessors,
\* (r - k) - (-k) equals r; r - 0 equals r; references are equal exactly
\* when their difference is 0.
C19_MinusInverse ==
    (/\ call.op = "minus" /\ call.back >= 0
     /\ predecessors(objects, call.reference) >= call.back) =>
        /\ Reference_equal(objects,
                           Reference_minus(objects, call.returned,
                                           0 - call.back),
                           call.reference)
        /\ call.back = 0 =>
            Reference_equal(objects, call.returned, call.reference)

\* C20: a - b is -1 for references into different theories; for references
\* into the same theory, in either order, it is the number of positions
\* between them.
C20_Distance ==
    call.op = "difference" =>
        IF call.a.theory # call.b.theory THEN call.returned = -1
        ELSE \/ call.returned
                    = position(objects[call.a.theory].objects, call.b.ref)
                      - position(objects[call.a.theory].objects, call.a.ref)
             \/ call.returned
                    = position(objects[call.a.theory].objects, call.a.ref)
                      - position(objects[call.a.theory].objects, call.b.ref)

(***************************************************************************)
(* SpecNode: a node is declared and definitions are set for it             *)
(* (Node::setDefinition, core/base.cpp).                                   *)
(***************************************************************************)
MaxDefinitions == 2     \* calls of setDefinition on the node

NoException == [what |-> "none"]

\* TypeException(type, want)
TypeException(got, want) == [what |-> "TypeException", type |-> got, want |-> want]

\* a setDefinition that takes every expression
Node_setDefinition_unchecked(node, new_expression) ==
    [node |-> [node EXCEPT !.expression = new_expression],
     thrown |-> NoException]

\* Node::setDefinition: the node after the call, and what it threw
Node_setDefinition(node, new_expression) ==
    IF TypeComparator(node.type, getType(new_expression), NoContext).value
    THEN [node |-> [node EXCEPT !.expression = new_expression],
          thrown |-> NoException]
    ELSE [node |-> node,
          thrown |-> TypeException(getType(new_expression), node.type)]

DeclaredNodes == { Node(name) : name \in {"p", "fritz", "schueler", "F", "T"} }

Definitions ==
    { expr \in { p, q, not(p), impl(p, q), fritz, AtomicExpr("x"),
                 schueler(fritz), AtomicExpr("schueler"), AtomicExpr("dumm"),
                 impl_pred, not_pred, or_pred, person, statement,
                 LambdaType(<<person>>, statement) } :
        constructs(expr) }

InitNode ==
    /\ objects \in DeclaredNodes
    /\ call = [n |-> 0, op |-> "none"]
    /\ subst = <<>>
    /\ vcall = NoCall
    /\ verified = "none"

Defined(new_expression, result) ==
    /\ objects' = result.node
    /\ call' = [n |-> call.n + 1, op |-> "setDefinition",
                new_expression |-> new_expression,
                thrown |-> result.thrown, before |-> objects]

setDefinition(new_expression) ==
    /\ call.n < MaxDefinitions
    /\ Defined(new_expression, Node_setDefinition(objects, new_expression))
    /\ UNCHANGED <<subst, vcall, verified>>

NextNode == \E new_expression \in Definitions : setDefinition(new_expression)

SpecNode == InitNode /\ [][NextNode]_vars

\* C21: a node that has a definition has one of its declared type;
\* setDefinition(e) stores e exactly when the type of e is the declared
\* type, and else throws a TypeException that names the type of e and the
\* declared type as the one wanted and leaves the definition as it was.
C21_DefinitionType ==
    /\ objects.expression # NoExpression =>
        getType(objects.expression) = objects.type
    /\ call.op = "setDefinition" =>
        IF getType(call.new_expression) = call.before.type
        THEN /\ call.thrown = NoException
             /\ objects = [call.before EXCEPT !.expression = call.new_expression]
        ELSE /\ call.thrown
                    = TypeException(getType(call.new_expression), call.before.type)
             /\ objects = call.before

C21_Witness ==
    /\ call.op = "setDefinition" /\ call.n = 2
    /\ call.thrown.what = "TypeException"
    /\ objects.expression # NoExpression
    /\ objects.type.cls = "LAMBDATYPE"

(***************************************************************************)
(* SpecExpression: a lambda call is constructed, or the type of a lambda   *)
(* expression is asked for (core/expression.cpp), one operation in each    *)
(* behaviour.  likes is a predicate of two persons.                        *)
(***************************************************************************)
MaxArgs == 3        \* arguments of a call, parameters of a lambda expression

Vectors(S) == UNION { [1..n -> S] : n \in 0..MaxArgs }

\* std::mismatch of the argument types with the arguments: the first
\* position where the comparison fails, the number of types + 1 if none
\* does; it asks for arguments as long as there are types
RECURSIVE args_mismatch(_, _, _)
args_mismatch(arg_types, args, i) ==
    IF i > Len(arg_types) \/ i > Len(args) THEN i
    ELSE IF TypeComparator(arg_types[i], getType(args[i]), NoContext).value
    THEN args_mismatch(arg_types, args, i + 1)
    ELSE i

\* LambdaCallExpr::LambdaCallExpr: what the constructor can throw.  With
\* fewer arguments than types std::mismatch reads behind the arguments,
\* with more the exception is built from the type behind the last one:
\* the program reads memory it does not own
LambdaCallExpr_constructor(node, args) ==
    IF NodeType(node).cls # "LAMBDATYPE"
    THEN {TypeException(NodeType(node), "lambda expression")}
    ELSE LET arg_types == NodeType(node).args
             i == args_mismatch(arg_types, args, 1)
         IN  IF i <= Len(arg_types) /\ i <= Len(args)
             THEN {TypeException(getType(args[i]), arg_types[i])}
             ELSE IF i <= Len(arg_types)
             THEN {[what |-> "SIGSEGV"],
                   TypeException(undefined, arg_types[i])}
             ELSE IF i <= Len(args)
             THEN {[what |-> "SIGSEGV"],
                   TypeException(getType(args[i]), undefined)}
             ELSE {NoException}

\* LambdaExpr::getType: the vector of types has one element, which stays
\* null without parameters, and std::transform writes behind it when there
\* are two or more
LambdaExpr_getType(params, expression) ==
    IF Len(params) = 0 THEN {[cls |-> "SIGSEGV"]}
    ELSE IF Len(params) = 1
    THEN {LambdaType(<<NodeType(params[1])>>, getType(expression))}
    ELSE {[cls |-> "SIGSEGV"],
          LambdaType(<<NodeType(params[1])>>, getType(expression))}

Callees == {"schueler", "likes", "F", "fritz"}

Arguments == {fritz, p, AtomicExpr("s")}

Parameters == {"x", "s", "T"}

Bodies == {p, schueler(AtomicExpr("x")), not(AtomicExpr("s")), AtomicExpr("x")}

InitExpression ==
    /\ call = [op |-> "none"]
    /\ objects = <<>>
    /\ subst = <<>>
    /\ vcall = NoCall
    /\ verified = "none"

Construct(node, args) ==
    /\ call.op = "none"
    /\ \E thrown \in LambdaCallExpr_constructor(node, args) :
        call' = [op |-> "LambdaCallExpr", node |-> node, args |-> args,
                 thrown |-> thrown]
    /\ UNCHANGED <<objects, subst, vcall, verified>>

GetType(params, expression) ==
    /\ call.op = "none"
    /\ \E result \in LambdaExpr_getType(params, expression) :
        call' = [op |-> "getType", params |-> params,
                 expression |-> expression, returned |-> result]
    /\ UNCHANGED <<objects, subst, vcall, verified>>

NextExpression ==
    \/ \E node \in Callees, args \in Vectors(Arguments) : Construct(node, args)
    \/ \E params \in Vectors(Parameters), expression \in Bodies :
        GetType(params, expression)

SpecExpression == InitExpression /\ [][NextExpression]_vars

\* the arguments have the types of the callee, one for one
well_typed(node, args) ==
    /\ NodeType(node).cls = "LAMBDATYPE"
    /\ Len(args) = Len(NodeType(node).args)
    /\ \A i \in 1..Len(args) : getType(args[i]) = NodeType(node).args[i]

\* C22: a lambda call is constructed exactly when the callee has a lambda
\* type with as many argument types as there are arguments, each the type
\* of the argument at its position; in every other case, with too few or
\* too many arguments too, the constructor throws a TypeException.
C22_CallConstruction ==
    call.op = "LambdaCallExpr" =>
        IF well_typed(call.node, call.args) THEN call.thrown = NoException
        ELSE call.thrown.what = "TypeException"

\* C23: the type of a lambda expression of parameters p1..pn, n >= 0, and
\* body b is the lambda type of the argument types type_of(p1), ...,
\* type_of(pn) and the return type type_of(b), and has type type.
C23_LambdaType ==
    call.op = "getType" =>
        /\ call.returned
            = LambdaType([i \in 1..Len(call.params) |-> NodeType(call.params[i])],
                         getType(call.expression))
        /\ getType(call.returned) = type

(***************************************************************************)
(* SpecMatch: the pushes and pops of one match.  check pushes the          *)
(* template; the visit of a target pushes the parts of the expression on   *)
(* top of the stack one after the other and pops each before the next      *)
(* (core/tree.cpp).  A frame keeps the object as it was before the push    *)
(* and the number of the part to push next.                                *)
(***************************************************************************)
MaxFrames == 5      \* expressions on the stack: the depth of the target

\* the parts of an expression that a visit pushes
children(expr) ==
    CASE expr.cls = "NEGATION" -> <<expr.expr>>
      [] expr.cls = "CONNECTIVE" -> <<expr.first, expr.second>>
      [] expr.cls = "QUANTIFIER" -> <<expr.predicate>>
      [] expr.cls = "LAMBDACALL" -> expr.args
      [] OTHER -> <<>>

snapshot(S) ==
    [stack |-> S.stack, subst_stack |-> S.subst_stack,
     substitutions |-> S.substitutions]

InitMatch ==
    /\ subst \in { [Substitution(expr) EXCEPT !.substitutions = context] :
                    expr \in Templates, context \in Contexts }
    /\ call = [op |-> "none", frames |-> <<>>]
    /\ objects = <<>>
    /\ vcall = NoCall
    /\ verified = "none"

Pushed(expr, frames) ==
    /\ subst' = push(subst, expr)
    /\ call' = [op |-> "push", expr |-> expr, before |-> snapshot(subst),
                frames |-> Append(frames,
                                  [saved |-> snapshot(subst), next |-> 1])]

\* Substitution::push of the template, or of the next part of the
\* expression on top of the stack
Push ==
    /\ subst.thrown = "none"
    /\ Len(call.frames) < MaxFrames
    /\ IF call.frames = <<>>
       THEN call.op = "none" /\ Pushed(subst.expr, call.frames)
       ELSE /\ top(call.frames).next <= Len(children(top(subst.stack)))
            /\ Pushed(children(top(subst.stack))[top(call.frames).next],
                      [call.frames EXCEPT ![Len(call.frames)].next = @ + 1])
    /\ UNCHANGED <<objects, vcall, verified>>

\* Substitution::pop
Pop ==
    /\ subst.thrown = "none"
    /\ call.frames # <<>>
    /\ subst' = pop(subst)
    /\ call' = [op |-> "pop", before |-> top(call.frames).saved,
                frames |-> pop_back(call.frames)]
    /\ UNCHANGED <<objects, vcall, verified>>

NextMatch == Push \/ Pop

SpecMatch == InitMatch /\ [][NextMatch]_vars

\* what add binds a parameter to
bound_to(arg, substitutions) ==
    IF arg.cls = "ATOMIC" /\ arg.node \in DOMAIN substitutions
    THEN substitutions[arg.node]
    ELSE arg

\* the push was a beta-reduction: a call of a parameter bound to a lambda
beta_reduced ==
    /\ call.op = "push" /\ subst.thrown = "none"
    /\ call.expr.cls = "LAMBDACALL"
    /\ call.expr.node \in DOMAIN call.before.substitutions
    /\ call.before.substitutions[call.expr.node].cls = "LAMBDA"

\* C27: every push has its pop, and after the pop the context, the stack
\* of templates and the stack of parameter lists are what they were before
\* the push; a push that binds parameters binds them to its arguments,
\* also when a parameter had a binding already; so when check returns the
\* stacks are empty again and the context is the one passed in.
C27_PushPop ==
    /\ (call.op = "pop" /\ subst.thrown = "none") =>
        snapshot(subst) = call.before
    /\ beta_reduced =>
        LET lambda == call.before.substitutions[call.expr.node]
        IN  \A i \in 1..Len(lambda.params) :
                have(subst, lambda.params[i])
                    = bound_to(call.expr.args[i], call.before.substitutions)

(***************************************************************************)
(* SpecPremiss: proof steps whose references point to objects of every     *)
(* kind: statements, a node of type statement with a definition, a         *)
(* declaration, and a type with a definition.                              *)
(***************************************************************************)
Definition(node_type, name, expr) ==
    [cls |-> "Node", type |-> node_type, name |-> name,
     expression |-> expr, proof |-> <<>>]

MixedObjects ==
    <<Statement("", impl(p, q)), Statement("", p),
      Definition(statement, "r", impl(p, q)), Node("p"),
      Definition(type, "pred", LambdaType(<<person>>, statement))>>

MixedVarLists == { <<p>>, <<p, q>>, <<q, p>> }

MixedRefLists ==
    { <<>> }
    \cup { <<Reference("theory", i)>> : i \in 1..Len(MixedObjects) }
    \cup { <<Reference("theory", i), Reference("theory", j)>> :
            i \in 1..Len(MixedObjects), j \in 1..Len(MixedObjects) }

MixedConclusions == { q, p, not(not(p)), or(p, not(p)) }

InitPremiss ==
    /\ \E r \in Rules :
        /\ subst = r.substs
        /\ vcall = [n |-> 0, rule |-> r.name, var_list |-> <<>>,
                    references |-> <<>>, statement |-> NoExpression,
                    thrown |-> "none", context |-> NoContext,
                    returned |-> "none", passes |-> 0, checks |-> 0,
                    before |-> "none"]
    /\ objects = MixedObjects
    /\ call = NoCall
    /\ verified = "none"

NextPremiss ==
    \E var_list \in MixedVarLists, references \in MixedRefLists,
       expr \in MixedConclusions :
        Reproves(var_list, references, expr)

SpecPremiss == InitPremiss /\ [][NextPremiss]_vars

\* C28: a proof step validates only if each of its references points to a
\* Statement object; no other object is taken for a premiss.
C28_PremissesAreStatements ==
    (vcall.n > 0 /\ vcall.returned = "true") =>
        \A i \in 1..Len(vcall.references) :
            deref(objects, vcall.references[i]).cls = "Statement"

(***************************************************************************)
(* The parser (Lexer::getToken, Parser): the input is the sequence of the  *)
(* tokens of the file, "(" and ")" for the parentheses and every other     *)
(* string a word; behind the last token the lexer returns ENDOFFILE again  *)
(* and again.  A Parser is the input, the position of the current token,   *)
(* the error count, the theory on top of theory_stack, the top of          *)
(* iterator_stack (the position of the object added last), the stack of    *)
(* parameter lists, the rules theory and what has ended the parse:         *)
(* "logic_error", "TypeException" and "NamespaceException" are exceptions  *)
(* nothing catches, "hangs" is a loop that reads no token and never ends,  *)
(* "undefined" is undefined behaviour.  Once the parse has ended every     *)
(* step of the parser leaves the Parser as it is.  The files of the model  *)
(* declare every node with the type NodeType has for its name, and hold no *)
(* definitions of rules.                                                   *)
(***************************************************************************)
Parser(input, rules) ==
    [input |-> input, pos |-> 1, error_count |-> 0, theory |-> <<>>,
     iterator |-> 0, parameter_stack |-> <<>>, rules |-> rules,
     thrown |-> "none"]

Parsed(P, value) == [P |-> P, value |-> value]

\* LispToken::getType of the current token
token_type(P) ==
    IF P.thrown # "none" THEN "CLOSING"
    ELSE IF P.pos > Len(P.input) THEN "ENDOFFILE"
    ELSE IF P.input[P.pos] = "(" THEN "OPENING"
    ELSE IF P.input[P.pos] = ")" THEN "CLOSING"
    ELSE "WORD"

\* LispToken::getContent of a word token
getContent(P) == IF token_type(P) = "WORD" THEN P.input[P.pos] ELSE ""

nextToken(P) ==
    IF P.thrown # "none" \/ P.pos > Len(P.input) THEN P
    ELSE [P EXCEPT !.pos = @ + 1]

\* the end of the parse: an exception leaves it, or it never returns
throw(P, what) == IF P.thrown # "none" THEN P ELSE [P EXCEPT !.thrown = what]

\* ParserErrorHandler::operator<<(ERROR)
error(P) == IF P.thrown # "none" THEN P ELSE [P EXCEPT !.error_count = @ + 1]

\* Parser::expect: the parser after the message, if there is one
expect(P, token) == IF token_type(P) = token THEN P ELSE error(P)

\* Parser::recover: at the end of the file no token is a closing one
recover(P) ==
    IF P.thrown # "none" THEN P
    ELSE IF \E i \in P.pos..Len(P.input) : P.input[i] = ")"
    THEN [P EXCEPT !.pos = CHOOSE i \in P.pos..Len(P.input) :
                                /\ P.input[i] = ")"
                                /\ \A j \in P.pos..(i - 1) : P.input[j] # ")"]
    ELSE throw(P, "hangs")

\* "Hope for a )"
closing(P) ==
    IF token_type(P) = "CLOSING" THEN nextToken(P) ELSE recover(error(P))

\* TypeException::type_undefined: the type the exception got is undefined
type_undefined(ex) == ex.type = undefined

\* Parser::report
report(P, ex) == IF type_undefined(ex) THEN P ELSE error(P)

undefined_node == ""

undefined_expr == AtomicExpr(undefined_node)

\* Node::Node(type, name) of the parser
DeclaredNode(node_type, name) ==
    [cls |-> "Node", type |-> node_type, name |-> name,
     expression |-> NoExpression, proof |-> <<>>]

\* Parser::addObject: Theory::add behind the object added last
addObject(P, object) ==
    IF P.thrown # "none" THEN P
    ELSE IF object.name # ""
            /\ \E i \in 1..Len(P.theory) : P.theory[i].name = object.name
    THEN throw(P, "NamespaceException")
    ELSE [P EXCEPT !.theory = Theory_add(P.theory, object, P.iterator),
                   !.iterator = P.iterator + 1]

\* Parser::getRule: the rule, or a null pointer
Parser_getRule(P) ==
    IF token_type(P) # "WORD" THEN Parsed(throw(P, "logic_error"), nullptr)
    ELSE LET it == Theory_get(P.rules, getContent(P))
         IN  IF it = Len(P.rules) + 1 THEN Parsed(error(P), nullptr)
             ELSE IF P.rules[it].type = rule THEN Parsed(P, P.rules[it])
             ELSE Parsed(P, nullptr)

\* the parameter lists from the top of the stack downwards
RECURSIVE in_parameters(_, _, _)
in_parameters(parameter_stack, level, name) ==
    IF level = 0 THEN FALSE
    ELSE \/ \E i \in 1..Len(parameter_stack[level]) :
                parameter_stack[level][i] = name
         \/ in_parameters(parameter_stack, level - 1, name)

\* Parser::getNode: every object of a theory of the model is a node
Parser_getNode(P) ==
    IF in_parameters(P.parameter_stack, Len(P.parameter_stack), getContent(P))
    THEN Parsed(P, getContent(P))
    ELSE IF Theory_get(P.theory, getContent(P)) # Len(P.theory) + 1
    THEN Parsed(P, getContent(P))
    ELSE Parsed(error(P), undefined_node)

\* LambdaExpr::getType reads behind its vector unless there is one parameter
type_defined(expr) == ~(expr.cls = "LAMBDA" /\ Len(expr.params) # 1)

\* what the constructor of an expression throws
NegationExpr_constructor(expr) ==
    IF getType(expr) # statement THEN TypeException(getType(expr), statement)
    ELSE NoException

ConnectiveExpr_constructor(first, second) ==
    IF getType(first) # statement THEN TypeException(getType(first), statement)
    ELSE IF getType(second) # statement
    THEN TypeException(getType(second), statement)
    ELSE NoException

QuantifierExpr_constructor(predicate) ==
    IF getType(predicate).cls = "LAMBDATYPE"
    THEN IF getType(predicate).return_type # statement
         THEN TypeException(getType(predicate).return_type, statement)
         ELSE NoException
    ELSE TypeException(getType(predicate), "lambda expression")

RECURSIVE first_non_type(_, _)
first_non_type(args, i) ==
    IF i > Len(args) \/ getType(args[i]) # type THEN i
    ELSE first_non_type(args, i + 1)

LambdaType_constructor(args, return_type) ==
    IF getType(return_type) # type THEN TypeException(getType(return_type), type)
    ELSE IF first_non_type(args, 1) <= Len(args)
    THEN TypeException(getType(args[first_non_type(args, 1)]), type)
    ELSE NoException

\* the try block around a constructor: the expression, or the report and
\* undefined_expr; the type of a part may be undefined behaviour
built(P, expr, parts, thrown) ==
    IF \E i \in 1..Len(parts) : ~type_defined(parts[i])
    THEN Parsed(throw(P, "undefined"), undefined_expr)
    ELSE IF Cardinality(thrown) # 1
    THEN Parsed(throw(P, "undefined"), undefined_expr)
    ELSE LET ex == CHOOSE ex \in thrown : TRUE
         IN  IF ex.what = "none" THEN Parsed(P, expr)
             ELSE IF ex.what = "SIGSEGV"
             THEN Parsed(throw(P, "undefined"), undefined_expr)
             ELSE Parsed(report(P, ex), undefined_expr)

\* What a parse function returned is handed on as the parameter of the
\* operator of the next step, named after the function and the step.
RECURSIVE parseType(_), parseLambdaType(_), parseTypes(_, _),
          parseExpression(_), parseExpressions(_, _), parseLambdaCallExpr(_),
          parseNegationExpr(_), parseConnectiveExpr(_), parseQuantifierExpr(_),
          parseLambda(_), parseNode(_), parseNodes(_, _), parseNodeList(_)

\* the end of a list: the closing parenthesis is read
ended(list) == Parsed(nextToken(list.P), list.value)

\* the atomic expression of the node getNode found
atomic(node) == Parsed(nextToken(node.P), AtomicExpr(node.value))

\* Parser::parseType
parseType(P) ==
    CASE token_type(P) = "WORD" ->
            IF getContent(P) = "type" THEN Parsed(nextToken(P), type)
            ELSE IF getContent(P) = "statement"
            THEN Parsed(nextToken(P), statement)
            ELSE atomic(Parser_getNode(P))
      [] token_type(P) = "OPENING" -> parseLambdaType(P)
      [] OTHER -> Parsed(error(P), undefined)

\* argument_types.push_back(argument), and the loop again
parseTypes_push_back(P, argument_types, argument) ==
    IF argument.P.thrown = "none" /\ argument.P.pos = P.pos
    THEN Parsed(throw(argument.P, "hangs"), argument_types)
    ELSE parseTypes(argument.P, Append(argument_types, argument.value))

\* while (token.getType() != CLOSING) argument_types.push_back(parseType())
parseTypes(P, argument_types) ==
    IF token_type(P) = "CLOSING" THEN Parsed(P, argument_types)
    ELSE parseTypes_push_back(P, argument_types, parseType(P))

\* parseLambdaType: the keyword lambda-type
parseLambdaType_keyword(P) ==
    IF token_type(P) # "WORD" \/ getContent(P) # "lambda-type"
    THEN error(P) ELSE P

\* parseLambdaType: the keyword list
parseLambdaType_list(P) ==
    IF token_type(P) = "WORD" /\ getContent(P) = "list"
    THEN nextToken(P) ELSE expect(P, "WORD")

\* parseLambdaType: the argument types behind the return type
parseLambdaType_arguments(P) ==
    IF token_type(P) = "OPENING"
    THEN ended(parseTypes(parseLambdaType_list(nextToken(P)), <<>>))
    ELSE Parsed(recover(error(P)), <<>>)

\* parseLambdaType: the closing parenthesis and the constructor
parseLambdaType_built(return_type, argument_types) ==
    built(IF token_type(argument_types.P) = "CLOSING"
          THEN nextToken(argument_types.P) ELSE error(argument_types.P),
          LambdaType(argument_types.value, return_type.value),
          <<>>,
          {LambdaType_constructor(argument_types.value, return_type.value)})

parseLambdaType_returning(return_type) ==
    parseLambdaType_built(return_type, parseLambdaType_arguments(return_type.P))

\* Parser::parseLambdaType
parseLambdaType(P) ==
    parseLambdaType_returning(
        parseType(nextToken(parseLambdaType_keyword(nextToken(P)))))

\* Parser::parseExpression
parseExpression(P) ==
    CASE token_type(P) = "OPENING" ->
            LET opened == nextToken(P)
            IN  IF token_type(opened) = "WORD"
                THEN CASE getContent(opened) = "not" -> parseNegationExpr(opened)
                       [] getContent(opened) \in {"and", "or", "impl", "equiv"} ->
                            parseConnectiveExpr(opened)
                       [] getContent(opened) \in {"forall", "exists"} ->
                            parseQuantifierExpr(opened)
                       [] getContent(opened) = "lambda" -> parseLambda(opened)
                       [] OTHER -> parseLambdaCallExpr(opened)
                ELSE Parsed(recover(error(opened)), undefined_expr)
      [] token_type(P) = "WORD" ->
            \* Parser::parseAtomicExpr
            atomic(Parser_getNode(P))
      [] OTHER -> Parsed(error(P), undefined_expr)

\* args.push_back(arg), and the loop again
parseExpressions_push_back(P, args, arg) ==
    IF arg.P.thrown = "none" /\ arg.P.pos = P.pos
    THEN Parsed(throw(arg.P, "hangs"), args)
    ELSE parseExpressions(arg.P, Append(args, arg.value))

\* while (token.getType() != CLOSING) args.push_back(parseExpression())
parseExpressions(P, args) ==
    IF token_type(P) = "CLOSING" THEN Parsed(P, args)
    ELSE parseExpressions_push_back(P, args, parseExpression(P))

\* parseLambdaCallExpr: the closing parenthesis and the constructor
parseLambdaCallExpr_built(lambda_node, args) ==
    built(nextToken(args.P), LambdaCallExpr(lambda_node.value, args.value),
          args.value,
          LambdaCallExpr_constructor(lambda_node.value, args.value))

parseLambdaCallExpr_args(lambda_node) ==
    parseLambdaCallExpr_built(lambda_node,
                              parseExpressions(nextToken(lambda_node.P), <<>>))

\* Parser::parseLambdaCallExpr
parseLambdaCallExpr(P) == parseLambdaCallExpr_args(Parser_getNode(P))

\* parseNegationExpr: the closing parenthesis and the constructor
parseNegationExpr_built(expr) ==
    built(closing(expr.P), NegationExpr(expr.value), <<expr.value>>,
          {NegationExpr_constructor(expr.value)})

\* Parser::parseNegationExpr
parseNegationExpr(P) == parseNegationExpr_built(parseExpression(nextToken(P)))

\* parseConnectiveExpr: the variant of the keyword
parseConnectiveExpr_variant(P) ==
    CASE getContent(P) = "and" -> "AND"
      [] getContent(P) = "or" -> "OR"
      [] getContent(P) = "impl" -> "IMPL"
      [] OTHER -> "EQUIV"

\* parseConnectiveExpr: the closing parenthesis and the constructor
parseConnectiveExpr_built(variant, expr1, expr2) ==
    built(closing(expr2.P),
          ConnectiveExpr(variant, expr1.value, expr2.value),
          <<expr1.value, expr2.value>>,
          {ConnectiveExpr_constructor(expr1.value, expr2.value)})

parseConnectiveExpr_second(variant, expr1) ==
    parseConnectiveExpr_built(variant, expr1, parseExpression(expr1.P))

\* Parser::parseConnectiveExpr
parseConnectiveExpr(P) ==
    parseConnectiveExpr_second(parseConnectiveExpr_variant(P),
                               parseExpression(nextToken(P)))

\* parseQuantifierExpr: the closing parenthesis and the constructor
parseQuantifierExpr_built(variant, expr) ==
    built(closing(expr.P), QuantifierExpr(variant, expr.value),
          <<expr.value>>, {QuantifierExpr_constructor(expr.value)})

\* Parser::parseQuantifierExpr
parseQuantifierExpr(P) ==
    parseQuantifierExpr_built(
        IF getContent(P) = "forall" THEN "FORALL" ELSE "EXISTS",
        parseExpression(nextToken(P)))

\* parseLambda: parameter_stack.emplace_back()
parseLambda_pushed(P) ==
    IF P.thrown # "none" THEN P
    ELSE [P EXCEPT !.parameter_stack = Append(@, <<>>)]

\* parseLambda: parameter_stack.pop_back()
parseLambda_popped(P) ==
    IF P.thrown # "none" THEN P
    ELSE [P EXCEPT !.parameter_stack = pop_back(@)]

parseLambda_built(params, expr) ==
    Parsed(closing(parseLambda_popped(expr.P)),
           LambdaExpr(params.value, expr.value))

parseLambda_body(params) ==
    parseLambda_built(params, parseExpression(params.P))

\* Parser::parseLambda: the parameters are on the stack while the list and
\* the body are parsed
parseLambda(P) ==
    parseLambda_body(parseNodeList(parseLambda_pushed(nextToken(P))))

\* parseNode: what Node::setDefinition did
parseNode_set(P, defined) ==
    IF defined.thrown.what = "none" THEN Parsed(P, defined.node)
    ELSE Parsed(report(P, defined.thrown), defined.node)

\* parseNode: the node with its definition
parseNode_defined(node_type, name, definition) ==
    IF ~type_defined(definition.value)
    THEN Parsed(throw(definition.P, "undefined"),
                DeclaredNode(node_type.value, name))
    ELSE parseNode_set(definition.P,
                       Node_setDefinition(DeclaredNode(node_type.value, name),
                                          definition.value))

\* parseNode behind the type
parseNode_typed(node_type) ==
    IF token_type(node_type.P) # "WORD"
    THEN Parsed(error(node_type.P), DeclaredNode(undefined, undefined_node))
    ELSE IF getType(node_type.value) # type
    THEN Parsed(throw(node_type.P, "TypeException"),
                DeclaredNode(undefined, undefined_node))
    ELSE IF token_type(nextToken(node_type.P)) = "CLOSING"
    THEN Parsed(nextToken(node_type.P),
                DeclaredNode(node_type.value, getContent(node_type.P)))
    ELSE parseNode_defined(node_type, getContent(node_type.P),
                           parseExpression(nextToken(node_type.P)))

\* Parser::parseNode: the node, or undefined_node; Node::Node throws when
\* the type is no type
parseNode(P) == parseNode_typed(parseType(P))

\* parameter_stack.back().push_back(node)
parseNodes_listed(P, name) ==
    IF P.thrown # "none" THEN P
    ELSE [P EXCEPT !.parameter_stack[Len(P.parameter_stack)] = Append(@, name)]

parseNodes_push_back(params, node) ==
    parseNodes(closing(parseNodes_listed(node.P, node.value.name)),
               Append(params, node.value.name))

\* the loop of parseNodeList: a token that opens no node is read again
parseNodes(P, params) ==
    IF token_type(P) = "CLOSING" THEN Parsed(P, params)
    ELSE IF token_type(P) # "OPENING"
    THEN Parsed(throw(error(P), "hangs"), params)
    ELSE parseNodes_push_back(params, parseNode(nextToken(P)))

\* Parser::parseNodeList, into the vector on top of the parameter stack
parseNodeList(P) ==
    IF token_type(P) # "OPENING" THEN Parsed(error(P), <<>>)
    ELSE IF token_type(nextToken(P)) # "WORD"
    THEN Parsed(recover(error(nextToken(P))), <<>>)
    ELSE IF getContent(nextToken(P)) # "list"
    THEN Parsed(recover(nextToken(P)), <<>>)
    ELSE ended(parseNodes(nextToken(nextToken(P)), <<>>))

\* the words of the references of the model, and the characters they spell;
\* a name is one symbol of a description
ThisWords ==
    <<"this~0", "this~1", "this~2", "this~3", "this~4", "this~5", "this~6",
      "this~7", "this~8", "this~9">>

spelling(content) ==
    IF content = "this" THEN this
    ELSE IF \E n \in 1..10 : ThisWords[n] = content
    THEN tilde((CHOOSE n \in 1..10 : ThisWords[n] = content) - 1)
    ELSE <<content>>

spelled(descr) ==
    IF Len(descr) = 1 THEN descr[1]
    ELSE IF descr = this THEN "this"
    ELSE ThisWords[CHOOSE n \in 1..10 : tilde(n - 1) = descr]

\* Reference::Reference from the word of a file, in a theory without
\* parent: the list is a ring through its end, the position 0; the member
\* theory stays as it was in memory when the base is a name
Reference_word(objs, this_it, content) ==
    LET descr == spelling(content)
        pos_tilde == find(descr, "~")
        base == IF pos_tilde # 0 THEN substr(descr, 0, pos_tilde) ELSE descr
        diff == IF pos_tilde # 0
                THEN extract(substr(descr, pos_tilde + 1, npos), 1, 0)
                ELSE 0
        ref == IF base = this THEN this_it ELSE Theory_get(objs, word(base))
    IN  Reference(IF base = this THEN "theory" ELSE "indeterminate",
                  ((ref % (Len(objs) + 1)) + (Len(objs) + 1) * diff - diff)
                        % (Len(objs) + 1))

\* Parser::parseReference
Parser_parseReference(P) ==
    IF token_type(P) = "WORD"
    THEN Parsed(nextToken(P), Reference_word(P.theory, P.iterator, getContent(P)))
    ELSE Parsed(error(P), Reference("nullptr", 0))

RECURSIVE parseReferences(_, _)
\* references.push_back(reference), and the loop again
parseReferences_push_back(P, references, reference) ==
    IF reference.P.thrown = "none" /\ reference.P.pos = P.pos
    THEN Parsed(throw(reference.P, "hangs"), references)
    ELSE parseReferences(reference.P, Append(references, reference.value))

\* while (token.getType() != CLOSING) references.push_back(parseReference())
parseReferences(P, references) ==
    IF token_type(P) = "CLOSING" THEN Parsed(P, references)
    ELSE parseReferences_push_back(P, references, Parser_parseReference(P))

\* the expression list of a proof step; a missing list is an empty one
parseExpressionList(P) ==
    IF token_type(P) # "OPENING" THEN Parsed(error(P), <<>>)
    ELSE IF token_type(nextToken(P)) # "WORD"
    THEN Parsed(recover(error(nextToken(P))), <<>>)
    ELSE IF getContent(nextToken(P)) # "list"
    THEN Parsed(recover(nextToken(P)), <<>>)
    ELSE ended(parseExpressions(nextToken(nextToken(P)), <<>>))

\* the reference list of a proof step
parseReferenceList(P) ==
    IF token_type(P) # "OPENING" THEN Parsed(error(P), <<>>)
    ELSE IF token_type(nextToken(P)) # "WORD"
    THEN Parsed(recover(error(nextToken(P))), <<>>)
    ELSE IF getContent(nextToken(P)) # "list"
    THEN Parsed(recover(nextToken(P)), <<>>)
    ELSE ended(parseReferences(nextToken(nextToken(P)), <<>>))

\* the proof step the constructor made, or what it threw
constructed_step(P, step) ==
    IF step.thrown = "none" THEN Parsed(P, step)
    ELSE IF step.thrown = "TypeException" THEN Parsed(error(P), nullptr)
    ELSE Parsed(throw(P, step.thrown), nullptr)

constructed_one(P, steps) ==
    IF Cardinality(steps) # 1 THEN Parsed(throw(P, "undefined"), nullptr)
    ELSE constructed_step(P, CHOOSE step \in steps : TRUE)

\* the end of parseProofStep: the proof step of the rule, or a null pointer
constructed(P, r, var_list, references) ==
    IF r = nullptr THEN Parsed(P, nullptr)
    ELSE IF P.thrown # "none" THEN Parsed(P, nullptr)
    ELSE IF \E i \in 1..Len(var_list) : ~type_defined(var_list[i])
    THEN Parsed(throw(P, "undefined"), nullptr)
    ELSE constructed_one(P, ProofStep(r, var_list, references))

parseProofStep_built(r, var_list, references) ==
    constructed(closing(references.P), r.value, var_list.value,
                references.value)

parseProofStep_references(r, var_list) ==
    parseProofStep_built(r, var_list, parseReferenceList(var_list.P))

parseProofStep_var_list(r) ==
    parseProofStep_references(r, parseExpressionList(nextToken(r.P)))

\* Parser::parseProofStep
parseProofStep(P) ==
    IF token_type(P) # "OPENING" THEN Parsed(error(P), nullptr)
    ELSE parseProofStep_var_list(Parser_getRule(nextToken(P)))

\* stmt->addProof(parseProofStep()) when there is a statement and a proof
\* step
stated_proof(stmt, is_added, proof) ==
    IF ~is_added \/ proof.value = nullptr \/ proof.P.thrown # "none"
    THEN proof.P
    ELSE [proof.P EXCEPT !.theory[stmt.iterator] = addProof(@, proof.value)]

\* what follows the statement: the proof step of a lemma
stated_rest(stmt, is_added, expect_proof) ==
    IF ~expect_proof THEN stmt
    ELSE stated_proof(stmt, is_added, parseProofStep(stmt))

\* the statement of parseStatement: built, added, and its proof parsed
stated(P, name, expr, expect_proof) ==
    IF ~type_defined(expr) THEN throw(P, "undefined")
    ELSE IF getType(expr) # statement
    THEN stated_rest(report(P, TypeException(getType(expr), statement)),
                     FALSE, expect_proof)
    ELSE stated_rest(addObject(P, Statement(name, expr)), TRUE, expect_proof)

parseStatement_stated(P, name, expr) ==
    stated(expr.P, name, expr.value, getContent(P) # "axiom")

\* Parser::parseStatement
parseStatement(P) ==
    IF token_type(nextToken(P)) = "WORD"
    THEN parseStatement_stated(P, getContent(nextToken(P)),
                               parseExpression(nextToken(nextToken(P))))
    ELSE parseStatement_stated(P, "", parseExpression(nextToken(P)))

parseObject_added(node) == closing(addObject(node.P, node.value))

\* Parser::parseObject
parseObject(P) ==
    IF token_type(P) # "OPENING" THEN error(P)
    ELSE IF token_type(nextToken(P)) = "WORD"
            /\ getContent(nextToken(P)) \in {"axiom", "lemma"}
    THEN closing(parseStatement(nextToken(P)))
    ELSE parseObject_added(parseNode(nextToken(P)))

parsedObject_turn(P, object) ==
    IF object.thrown = "none" /\ object.pos = P.pos
    THEN throw(object, "hangs") ELSE object

\* one turn of the loop of parseTheory: an object that reads no token is
\* parsed again and again
parsedObject(P) == parsedObject_turn(P, parseObject(P))

\* Parser::parseTheory(standalone)
RECURSIVE parseTheory(_)
parseTheory(P) ==
    IF token_type(P) \in {"CLOSING", "ENDOFFILE"} THEN P
    ELSE parseTheory(parsedObject(P))

(***************************************************************************)
(* The Writer: the tokens it writes; where the lines break is left out.    *)
(***************************************************************************)
RECURSIVE Writer_visit(_), Writer_visits(_, _), writeNodeList(_, _)
Writer_visit(expr) ==
    CASE expr.cls = "BUILTINTYPE" ->
            <<CASE expr.variant = "TYPE" -> "type"
                [] expr.variant = "STATEMENT" -> "statement"
                [] expr.variant = "RULE" -> "rule"
                [] OTHER -> "undefined">>
      [] expr.cls = "LAMBDATYPE" ->
            <<"(", "lambda-type">> \o Writer_visit(expr.return_type)
                \o <<"(", "list">> \o Writer_visits(expr.args, 1)
                \o <<")", ")">>
      [] expr.cls = "ATOMIC" -> <<expr.node>>
      [] expr.cls = "LAMBDACALL" ->
            <<"(", expr.node>> \o Writer_visits(expr.args, 1) \o <<")">>
      [] expr.cls = "NEGATION" ->
            <<"(", "not">> \o Writer_visit(expr.expr) \o <<")">>
      [] expr.cls = "CONNECTIVE" ->
            <<"(", CASE expr.variant = "AND" -> "and"
                     [] expr.variant = "OR" -> "or"
                     [] expr.variant = "IMPL" -> "impl"
                     [] OTHER -> "equiv">>
                \o Writer_visit(expr.first) \o Writer_visit(expr.second)
                \o <<")">>
      [] expr.cls = "QUANTIFIER" ->
            <<"(", IF expr.variant = "EXISTS" THEN "exists" ELSE "forall">>
                \o Writer_visit(expr.predicate) \o <<")">>
      [] expr.cls = "LAMBDA" ->
            <<"(", "lambda", "(", "list">> \o writeNodeList(expr.params, 1)
                \o <<")">> \o Writer_visit(expr.expression) \o <<")">>

Writer_visits(args, i) ==
    IF i > Len(args) THEN <<>>
    ELSE Writer_visit(args[i]) \o Writer_visits(args, i + 1)

\* the params of Writer::writeNodeList: parameters have no definition
writeNodeList(params, i) ==
    IF i > Len(params) THEN <<>>
    ELSE <<"(">> \o Writer_visit(NodeType(params[i])) \o <<params[i], ")">>
            \o writeNodeList(params, i + 1)

\* Reference::getDescription in a theory without parent
Reference_getDescription(objs, r, this_it) ==
    IF objs[r.ref].name # "" THEN <<objs[r.ref].name>>
    ELSE described([level_val |-> 0,
                    diff |-> IF r.ref <= this_it THEN this_it - r.ref
                             ELSE this_it])

RECURSIVE Writer_substitutes(_, _, _), Writer_references(_, _, _, _)
\* (*proofstep)[node] of each parameter of the rule
Writer_substitutes(params, substitutes, i) ==
    IF i > Len(params) THEN <<>>
    ELSE Writer_visit(substitutes[params[i]])
            \o Writer_substitutes(params, substitutes, i + 1)

Writer_references(objs, references, this_it, i) ==
    IF i > Len(references) THEN <<>>
    ELSE <<spelled(Reference_getDescription(objs, references[i], this_it))>>
            \o Writer_references(objs, references, this_it, i + 1)

\* Writer::visit(const ProofStep *)
Writer_visit_proofstep(objs, proofstep, this_it) ==
    <<"(", proofstep.rule, "(", "list">>
        \o Writer_substitutes(getRule(proofstep.rule).params, proofstep.subst, 1)
        \o <<")", "(", "list">>
        \o Writer_references(objs, proofstep.ref_statement_list, this_it, 1)
        \o <<")", ")">>

\* Writer::visit(const Node *) and Writer::visit(const Statement *)
Writer_visit_object(objs, it) ==
    IF objs[it].cls = "Statement"
    THEN <<"(", IF hasProof(objs[it]) THEN "lemma" ELSE "axiom">>
            \o Writer_visit(objs[it].expression)
            \o (IF hasProof(objs[it])
                THEN Writer_visit_proofstep(objs, getProof(objs[it]), it)
                ELSE <<>>)
            \o <<")">>
    ELSE <<"(">> \o Writer_visit(objs[it].type) \o <<objs[it].name>>
            \o (IF objs[it].expression # NoExpression
                THEN Writer_visit(objs[it].expression) ELSE <<>>)
            \o <<")">>

\* Writer::visit(const Theory *)
RECURSIVE Writer_visit_theory(_, _)
Writer_visit_theory(objs, it) ==
    IF it > Len(objs) THEN <<>>
    ELSE Writer_visit_object(objs, it) \o Writer_visit_theory(objs, it + 1)


(***************************************************************************)
(* SpecParser: parseTheory on a file, object by object, and verify() on    *)
(* the theory it returns.  A file is the declarations of p and q and up to *)
(* MaxFileObjects objects: axioms and lemmas that are well-formed, and     *)
(* lemmas that are malformed each in its own way; or the beginning of a    *)
(* well-formed file, or a file with a word between its objects.  The rules *)
(* theory holds the rules, once with a declaration among them.             *)
(***************************************************************************)
MaxFileObjects == 3     \* objects of a file behind the declarations

Tokens(object) == object.input

FileObject(name, input, lemma, malformed, expr) ==
    [name |-> name, input |-> input, lemma |-> lemma,
     malformed |-> malformed, expression |-> expr]

Declarations == <<"(", "statement", "p", ")", "(", "statement", "q", ")">>

impl_p_q == <<"(", "impl", "p", "q", ")">>

by_excluded_middle ==
    <<"(", "excluded_middle", "(", "list", "p", ")", "(", "list", ")", ")">>

WellFormed ==
    { FileObject("axiom", <<"(", "axiom">> \o impl_p_q \o <<")">>,
                 FALSE, FALSE, impl(p, q)),
      FileObject("axiom_p", <<"(", "axiom", "(", "not", "(", "not", "p", ")",
                              ")", ")">>,
                 FALSE, FALSE, not(not(p))),
      FileObject("lemma",
                 <<"(", "lemma", "(", "or", "p", "(", "not", "p", ")", ")">>
                    \o by_excluded_middle \o <<")">>,
                 TRUE, FALSE, or(p, not(p))),
      FileObject("lemma_p",
                 <<"(", "lemma", "(", "not", "(", "not", "(", "not", "p", ")",
                   ")", ")", "(", "double_negation", "(", "list", "(", "not",
                   "p", ")", ")", "(", "list", "this~1", ")", ")", ")">>,
                 TRUE, FALSE, not(not(not(p)))) }

Malformed ==
    { FileObject("undefined rule",
                 <<"(", "lemma">> \o impl_p_q
                    \o <<"(", "nosuchrule", "(", "list", "p", "q", ")",
                         "(", "list", ")", ")", ")">>,
                 TRUE, TRUE, NoExpression),
      FileObject("no expression", <<"(", "lemma", "p", ")">>,
                 TRUE, TRUE, NoExpression),
      FileObject("no rule",
                 <<"(", "lemma">> \o impl_p_q \o <<"(", ")", ")">>,
                 TRUE, TRUE, NoExpression),
      FileObject("no rule object",
                 <<"(", "lemma">> \o impl_p_q
                    \o <<"(", "person", "(", "list", ")", "(", "list", ")", ")",
                         ")">>,
                 TRUE, TRUE, NoExpression),
      FileObject("not closed",
                 <<"(", "lemma">> \o impl_p_q
                    \o <<"(", "excluded_middle", "(", "list", "p", ")",
                         "(", "list">>,
                 TRUE, TRUE, NoExpression),
      FileObject("reference list",
                 <<"(", "lemma">> \o impl_p_q
                    \o <<"(", "ponens", "(", "list", "p", "q", ")",
                         "(", "list", "(", "this~1", ")", ")", ")", ")">>,
                 TRUE, TRUE, NoExpression),
      FileObject("parameter list",
                 <<"(", "lemma", "(", "forall", "(", "lambda", "(", "list",
                   "x", ")", "p", ")", ")">> \o by_excluded_middle \o <<")">>,
                 TRUE, TRUE, NoExpression) }

RECURSIVE Files(_)
\* the files of n objects: what they hold, and their tokens
Files(n) ==
    IF n = 0 THEN {[objects |-> <<>>, input |-> Declarations]}
    ELSE { [objects |-> Append(file.objects, object),
            input |-> file.input \o Tokens(object)] :
                file \in Files(n - 1), object \in WellFormed \cup Malformed }

WholeFile ==
    CHOOSE file \in Files(2) :
        /\ file.objects[1].name = "axiom" /\ file.objects[2].name = "lemma"

\* files that end in an object, and files with a word between the objects
BrokenFiles ==
    { [objects |-> <<>>, input |-> SubSeq(WholeFile.input, 1, n)] :
        n \in 0..(Len(WholeFile.input) - 1) }
    \cup { [objects |-> <<>>, input |-> Declarations \o <<"p">> \o object.input] :
            object \in WellFormed }

ParserFiles == UNION { Files(n) : n \in 0..MaxFileObjects } \cup BrokenFiles

BasicRules == <<excluded_middle, double_negation, ponens, specialization>>

RulesTheories == { BasicRules, BasicRules \o <<Node("person")>> }

InitParser ==
    /\ \E file \in ParserFiles, rules \in RulesTheories :
        /\ call = Parser(file.input, rules)
        /\ vcall = [objects |-> file.objects, returned |-> FALSE]
    /\ objects = <<>>
    /\ subst = [name \in {r.name : r \in Rules} |-> getRule(name).substs]
    /\ verified = "none"

\* one turn of the loop of parseTheory
ParseObject ==
    /\ ~vcall.returned
    /\ call.thrown = "none"
    /\ token_type(call) \notin {"CLOSING", "ENDOFFILE"}
    /\ call' = parsedObject(call)
    /\ objects' = call'.theory
    /\ UNCHANGED <<subst, vcall, verified>>

\* parseTheory returns the theory
Return ==
    /\ ~vcall.returned
    /\ call.thrown = "none"
    /\ token_type(call) \in {"CLOSING", "ENDOFFILE"}
    /\ vcall' = [vcall EXCEPT !.returned = TRUE]
    /\ UNCHANGED <<subst, call, objects, verified>>

\* a proof step with a reference to the end of the list
dangling(objs) ==
    \E i \in 1..Len(objs) :
        /\ hasProof(objs[i])
        /\ \E j \in 1..Len(getProof(objs[i]).ref_statement_list) :
                getProof(objs[i]).ref_statement_list[j].ref \notin 1..Len(objs)

\* Theory::verify on the theory parsed
VerifyParsed ==
    /\ vcall.returned
    /\ verified = "none"
    /\ IF dangling(objects)
       THEN verified' = "undefined" /\ UNCHANGED subst
       ELSE Verified(Theory_verify(objects, subst))
    /\ UNCHANGED <<objects, call, vcall>>

NextParser == ParseObject \/ Return \/ VerifyParsed

SpecParser == InitParser /\ [][NextParser]_vars

\* the malformed lemmas and the lemmas of the file, and the statements of
\* the theory that have a proof
malformed_lemmas == { i \in 1..Len(vcall.objects) : vcall.objects[i].malformed }

lemmas == { i \in 1..Len(vcall.objects) : vcall.objects[i].lemma }

proofs == { i \in 1..Len(objects) :
                objects[i].cls = "Statement" /\ hasProof(objects[i]) }

\* the statements of the well-formed objects behind the malformed one are
\* in the theory
following_parsed ==
    \A i \in 1..Len(vcall.objects) :
        (/\ ~vcall.objects[i].malformed
         /\ vcall.objects[i].expression # NoExpression
         /\ \E j \in 1..(i - 1) : vcall.objects[j].malformed)
            => \E k \in 1..Len(objects) :
                    /\ objects[k].cls = "Statement"
                    /\ objects[k].expression = vcall.objects[i].expression
                    /\ hasProof(objects[k]) = vcall.objects[i].lemma

\* C25: a file with exactly one malformed lemma among well-formed objects
\* is parsed to its end, the objects behind the malformed lemma are added
\* to the theory, and the error count is one.
C25_Recovery ==
    Cardinality(malformed_lemmas) = 1 =>
        /\ call.thrown = "none"
        /\ vcall.returned => (call.error_count = 1 /\ following_parsed)

\* C29: when the file is parsed without an error, every lemma of the file
\* has its proof step in the theory.
C29_LemmasKeepProofs ==
    (vcall.returned /\ call.error_count = 0) =>
        Cardinality(proofs) = Cardinality(lemmas)

\* C30: parseTheory comes to an end on every file: no loop of the parser
\* is left without a token to read.
C30_Terminates == call.thrown # "hangs"

(***************************************************************************)
(* SpecWrite: a theory built with the constructors is written by the       *)
(* Writer and the tokens written are parsed again with the rules theory.   *)
(* The theories are the declarations of p and q and up to MaxFileObjects   *)
(* statements: axioms and lemmas, with and without name, one of them an    *)
(* identifier alone; and the theory of fritz.                              *)
(***************************************************************************)
\* the only proof step the constructor builds from these arguments
proof_step(r, var_list, references) ==
    CHOOSE step \in ProofStep(r, var_list, references) : TRUE

\* the theory with one more object of that kind, added behind the last
extended(objs, kind) ==
    LET last == Reference("theory", Len(objs))
        before == Reference("theory", Len(objs) - 1)
    IN  Theory_add(objs,
            CASE kind = "axiom" -> Statement("", impl(p, q))
              [] kind = "identifier" -> Statement("", p)
              [] kind = "named" -> Statement("ax", impl(p, q))
              [] kind = "lemma" ->
                    addProof(Statement("", or(p, not(p))),
                             proof_step(excluded_middle, <<p>>, <<>>))
              [] kind = "lemma of one" ->
                    addProof(Statement("", not(not(impl(p, q)))),
                             proof_step(double_negation, <<impl(p, q)>>,
                                        <<last>>))
              [] kind = "lemma of two" ->
                    addProof(Statement("", q),
                             proof_step(ponens, <<p, q>>, <<before, last>>)),
            Len(objs))

Kinds ==
    {"axiom", "identifier", "named", "lemma", "lemma of one", "lemma of two"}

RECURSIVE Constructed(_)
\* the theories of n statements; a name is given once
Constructed(n) ==
    IF n = 0 THEN {<<Node("p"), Node("q")>>}
    ELSE UNION { { extended(objs, kind) :
                    kind \in Kinds \ (IF \E i \in 1..Len(objs) :
                                            objs[i].name = "ax"
                                      THEN {"named"} ELSE {}) } :
                 objs \in Constructed(n - 1) }

WrittenTheories ==
    UNION { Constructed(n) : n \in 0..MaxFileObjects } \cup {FritzTheory}

NotWritten == [op |-> "none", output |-> <<>>, parser |-> Parser(<<>>, <<>>)]

\* what Theory::verify returns; a reference to the end of the list is
\* undefined behaviour
verify_returned(objs, substs) ==
    IF dangling(objs) THEN "undefined"
    ELSE Theory_verify(objs, substs).returned

InitWrite ==
    /\ objects \in WrittenTheories
    /\ call = NotWritten
    /\ subst = [name \in {r.name : r \in Rules} |-> getRule(name).substs]
    /\ vcall = [original |-> "none", parsed |-> "none"]
    /\ verified = "none"

\* Writer::visit(const Theory *)
Write ==
    /\ call.op = "none"
    /\ call' = [call EXCEPT !.op = "written",
                            !.output = Writer_visit_theory(objects, 1)]
    /\ UNCHANGED <<subst, vcall, objects, verified>>

\* parseTheory on what was written, and verify() on both theories
Read ==
    /\ call.op = "written"
    /\ call' = [call EXCEPT !.op = "parsed",
                            !.parser = parseTheory(Parser(call.output, BasicRules))]
    /\ vcall' = [original |-> verify_returned(objects, subst),
                 parsed |-> verify_returned(call'.parser.theory, subst)]
    /\ UNCHANGED <<subst, objects, verified>>

NextWrite == Write \/ Read

SpecWrite == InitWrite /\ [][NextWrite]_vars

\* an object without the theory pointers of its references
structure(object) ==
    [cls |-> object.cls, type |-> object.type, name |-> object.name,
     expression |-> object.expression,
     proof |-> [k \in 1..Len(object.proof) |->
                    [rule |-> object.proof[k].rule,
                     subst |-> object.proof[k].subst,
                     references |->
                        [j \in 1..Len(object.proof[k].ref_statement_list) |->
                            object.proof[k].ref_statement_list[j].ref]]]]

structurally_equal(objs, others) ==
    /\ Len(objs) = Len(others)
    /\ \A i \in 1..Len(objs) : structure(objs[i]) = structure(others[i])

\* C24: what the Writer writes for a theory is parsed without an error to
\* a theory structurally equal to it, and verify() returns the same for
\* both.
C24_RoundTrip ==
    call.op = "parsed" =>
        /\ call.parser.thrown = "none"
        /\ call.parser.error_count = 0
        /\ structurally_equal(objects, call.parser.theory)
        /\ vcall.parsed = vcall.original

(***************************************************************************)
(* The command-line tool: parse and main of tools/parser.cpp.  The tool    *)
(* is called with a theory file and, as an option, a rules file; a file    *)
(* is a token stream, or it cannot be opened.                              *)
(***************************************************************************)

\* n objects "( )", each of them two parse errors
EmptyObjects(n) ==
    [i \in 1..(2 * n) |-> IF i % 2 = 1 THEN "(" ELSE ")"]

\* numbers of objects "( )" in the files of the tool
ObjectCounts == {1, 127, 128, 129}

NoFile == [exists |-> FALSE, basic |-> FALSE, input |-> << >>]

TokenFile(input) == [exists |-> TRUE, basic |-> FALSE, input |-> input]

\* basic/rules.lth, the default rules file: its rule definitions are read
\* without an error to the four rules of the model
BasicRulesFile == [exists |-> TRUE, basic |-> TRUE, input |-> << >>]

RulesFiles ==
    { NoFile, BasicRulesFile, TokenFile(<< >>),
      TokenFile(<<"(", "type", "person", ")">>), TokenFile(EmptyObjects(1)) }

\* a lemma whose proof step does not give it, and a lemma whose proof
\* step refers to a name no object has
UnprovedLemma == <<"(", "lemma">> \o impl_p_q \o by_excluded_middle \o <<")">>

DanglingLemma ==
    <<"(", "lemma", "(", "not", "(", "not", "(", "not", "p", ")", ")", ")",
      "(", "double_negation", "(", "list", "(", "not", "p", ")", ")",
      "(", "list", "ax", ")", ")", ")">>

TheoryFiles ==
    {NoFile, TokenFile(Declarations \o UnprovedLemma),
     TokenFile(Declarations \o DanglingLemma)}
    \cup { TokenFile(file.input) : file \in Files(0) \cup Files(1) \cup BrokenFiles }
    \cup { TokenFile(Declarations \o EmptyObjects(n)) : n \in ObjectCounts }

\* Core::Theory res = parser.parseTheory(); *num_errors = parser.getErrors()
parse_res(parser) ==
    [theory |-> parser.theory, num_errors |-> parser.error_count,
     thrown |-> parser.thrown]

\* parse(filename, num_errors, rules): the theory returned, what is written
\* to *num_errors, and how parseTheory ended
parse(file, rules) ==
    IF ~file.exists
    THEN [theory |-> << >>, num_errors |-> -1, thrown |-> "none"]
    ELSE IF file.basic
    THEN [theory |-> BasicRules, num_errors |-> 0, thrown |-> "none"]
    ELSE parse_res(parseTheory(Parser(file.input, rules)))

\* the exit status the parent process sees of 'return err_num' in main
exit_status(err_num) == err_num % 256

\* how the process goes on after parse: a loop without end, an exception
\* nobody catches, or the test of err_num in main
after_parse(parsed, next_pc) ==
    IF parsed.thrown = "hangs" THEN [pc |-> "hangs", status |-> -1]
    ELSE IF parsed.thrown = "undefined" THEN [pc |-> "undefined", status |-> -1]
    ELSE IF parsed.thrown # "none" THEN [pc |-> "terminated", status |-> -1]
    ELSE IF parsed.num_errors # 0
    THEN [pc |-> "exited", status |-> exit_status(parsed.num_errors)]
    ELSE [pc |-> next_pc, status |-> -1]

InitTool ==
    /\ \E rules_file \in RulesFiles, theory_file \in TheoryFiles :
            vcall = [rules_file |-> rules_file, theory_file |-> theory_file,
                     rules |-> << >>,
                     rules_errors |-> << >>, theory_errors |-> << >>]
    /\ call = [pc |-> "parse rules", status |-> -1]
    /\ objects = << >>
    /\ subst = [name \in {r.name : r \in Rules} |-> getRule(name).substs]
    /\ verified = "none"

\* main: Core::Theory rules = parse(rules_file, &err_num, &rules)
MainParseRules ==
    /\ call.pc = "parse rules"
    /\ LET rules_parsed(parsed) ==
            /\ call' = after_parse(parsed, "parse theory")
            /\ vcall' = [vcall EXCEPT !.rules = parsed.theory,
                                      !.rules_errors = <<parsed.num_errors>>]
       IN  rules_parsed(parse(vcall.rules_file, << >>))
    /\ UNCHANGED <<subst, objects, verified>>

\* main: Core::Theory theory = parse(argv[1], &err_num, &rules)
MainParseTheory ==
    /\ call.pc = "parse theory"
    /\ LET theory_parsed(parsed) ==
            /\ call' = after_parse(parsed, "verify")
            /\ vcall' = [vcall EXCEPT !.theory_errors = <<parsed.num_errors>>]
            /\ objects' = parsed.theory
       IN  theory_parsed(parse(vcall.theory_file, vcall.rules))
    /\ UNCHANGED <<subst, verified>>

\* main: theory.verify(), the outcome is printed and main returns 0
MainVerify ==
    /\ call.pc = "verify"
    /\ verified' = verify_returned(objects, subst)
    /\ call' = IF verified' = "undefined"
               THEN [pc |-> "undefined", status |-> -1]
               ELSE [pc |-> "exited", status |-> 0]
    /\ UNCHANGED <<subst, vcall, objects>>

NextTool == MainParseRules \/ MainParseTheory \/ MainVerify

SpecTool == InitTool /\ [][NextTool]_vars

\* the number of parse errors of the file on which main gave up; the
\* error counts of the files read are kept as sequences of one number
errors_of_failed_parse ==
    IF vcall.theory_errors # << >> THEN vcall.theory_errors[1]
    ELSE vcall.rules_errors[1]

\* C26: the tool exits with status zero when both files were read without
\* a parse error, and otherwise with the number of parse errors of the
\* file that was read with errors as its status; verify() is run only
\* when both files were read with zero parse errors.
C26_ExitStatus ==
    /\ call.pc = "exited" =>
        IF vcall.rules_errors = <<0>> /\ vcall.theory_errors = <<0>>
        THEN call.status = 0
        ELSE /\ call.status # 0
             /\ errors_of_failed_parse > 0 => call.status = errors_of_failed_parse
    /\ verified # "none" => (vcall.rules_errors = <<0>> /\ vcall.theory_errors = <<0>>)

====
